---- MODULE Spec2Model ----
(***************************************************************************)
(* A model of pyobj.h: the PyObj handle over reference-counted foreign     *)
(* (CPython) values, the typed views built on it, and the runtime calls    *)
(* the wrappers make.  The foreign runtime is modelled by its documented   *)
(* reference semantics: a "new reference" result carries one count that    *)
(* the caller owns, a "borrowed" result carries none, PyList_SetItem and   *)
(* PyTuple_SetItem steal one count of the stored item, a count that drops  *)
(* to zero deallocates the value and releases what it refers to.           *)
(*                                                                         *)
(* Abstractions: every literal is a fresh value (the runtime's cache of    *)
(* small integers and interned texts is left out, so the runtime itself    *)
(* holds no count of a modelled value); texts are sequences over a small   *)
(* alphabet; a deallocated value's identity is never reused.               *)
(***************************************************************************)
EXTENDS Integers, Sequences, FiniteSets, TLC

\* ---------------------------------------------------------------- bounds
MaxObj == 5          \* foreign values allocated in one behaviour
NumHandles == 3      \* PyObj variables of the host program
MaxLen == 2          \* length of the texts and sequences that are indexed and searched
NumOwn == 2          \* handles of the programs that build their values themselves
MaxOwnObj == 3       \* values such a program allocates in one behaviour
MaxStored == 1       \* elements such a program keeps in one container
MaxRc == 3           \* reference counts followed (leaked counts pile up)
MaxArgs == 2         \* arguments of one call
MaxFormat == 5       \* characters of a generated template
MaxFArgs == 2        \* arguments of one fstring call
MaxWidth == 2        \* children of one rendered container
MaxIndent == 2       \* starting indent of a rendering
MaxText == 2         \* characters of a text that is represented
MaxStmts == 2        \* statements of a piece of code that is run
MaxCalls == 12       \* lifecycle calls of one behaviour
MaxScan == 4         \* characters of a template scanned round by round

Null == 0            \* the nullptr of an empty handle
Obj == 1..MaxObj
Handles == 1..NumHandles
OwnHandles == 1..NumOwn

VARIABLES
    heap,   \* foreign values: kind, reference count, referenced items, payload
    err,    \* the runtime's pending-error indicator
    ub,     \* a deallocated value has been dereferenced: behaviour undefined
    live,   \* the handles that are constructed and not yet destroyed
    hobj,   \* PyObj::obj of each handle (Null when empty or not live)
    last    \* the wrapper operation that ran last, with what it returned

vars == <<heap, err, ub, live, hobj, last>>

\* ------------------------------------------------------ foreign runtime
NoObj == [kind |-> "none", rc |-> 0, items |-> <<>>, val |-> 0, text |-> <<>>]
Freed == [kind |-> "freed", rc |-> 0, items |-> <<>>, val |-> 0, text |-> <<>>]

Rt == [heap |-> heap, err |-> err, ub |-> ub]

SetRt(R) == heap' = R.heap /\ err' = R.err /\ ub' = R.ub

Unused(H) == {o \in Obj : H[o].kind = "none"}
HasRoom(n) == Cardinality(Unused(heap)) >= n
Fresh(H) == CHOOSE o \in Unused(H) : \A p \in Unused(H) : o <= p

Allocated(H, o) == o # Null /\ H[o].kind \notin {"none", "freed"}

\* A new value with one count, which the caller owns.
PyNew(R, k, its, v, t) ==
    [R EXCEPT !.heap[Fresh(R.heap)] =
        [kind |-> k, rc |-> 1, items |-> its, val |-> v, text |-> t]]

RECURSIVE FlattenPairs(_)
FlattenPairs(ps) ==
    IF ps = <<>> THEN <<>> ELSE <<Head(ps)[1], Head(ps)[2]>> \o FlattenPairs(Tail(ps))

\* The values a value holds a count of: a container's elements, a dict's keys and values.
RefsOf(rec) ==
    IF rec.kind = "dict" THEN FlattenPairs(rec.items)
    ELSE IF rec.kind \in {"list", "tuple", "set"} THEN rec.items
    ELSE <<>>

\* Py_XINCREF: nothing on NULL, one count more on a value.
Py_XINCREF(R, o) ==
    IF o = Null THEN R
    ELSE IF ~Allocated(R.heap, o) THEN [R EXCEPT !.ub = TRUE]
    ELSE [R EXCEPT !.heap[o].rc = @ + 1]

\* Py_XDECREF of each value of todo in turn: a count that reaches zero
\* deallocates the value, which releases the values it refers to.
RECURSIVE Release(_, _)
Release(R, todo) ==
    IF todo = <<>> \/ R.ub THEN R
    ELSE LET o == Head(todo)
             rest == Tail(todo)
         IN IF o = Null THEN Release(R, rest)
            ELSE IF ~Allocated(R.heap, o) THEN [R EXCEPT !.ub = TRUE]
            ELSE IF R.heap[o].rc > 1
                 THEN Release([R EXCEPT !.heap[o].rc = @ - 1], rest)
                 ELSE Release([R EXCEPT !.heap[o] = Freed], rest \o RefsOf(R.heap[o]))

Py_XDECREF(R, o) == Release(R, <<o>>)

RECURSIVE IncrefAll(_, _)
IncrefAll(R, os) ==
    IF os = <<>> THEN R ELSE IncrefAll(Py_XINCREF(R, Head(os)), Tail(os))

\* ------------------------------------------------------------- handles
Done(name, arg, ret) == last' = [op |-> name, arg |-> arg, ret |-> ret]

\* PyObj(PyObject* o = nullptr) with no argument: an empty handle.
DefaultHandle(h) ==
    /\ ~ub /\ h \notin live
    /\ live' = live \cup {h}
    /\ hobj' = [hobj EXCEPT ![h] = Null]
    /\ UNCHANGED <<heap, err, ub>>
    /\ Done("PyObj()", <<>>, Null)

\* PyObj(int v): obj(PyLong_FromLong(v)), the new reference is the handle's.
Literal(h, v) ==
    /\ ~ub /\ h \notin live /\ HasRoom(1)
    /\ SetRt(PyNew(Rt, "int", <<>>, v, <<>>))
    /\ live' = live \cup {h}
    /\ hobj' = [hobj EXCEPT ![h] = Fresh(heap)]
    /\ Done("PyObj(int)", <<>>, Null)

\* PyObj(PyObject* o): obj(o), Py_XINCREF(obj).  What the views' constructors
\* from a raw value run; `R` is the runtime after the value o was produced.
WrapRaw(R, o) == Py_XINCREF(R, o)

\* PyObj(const PyObj& other): obj(other.obj), Py_XINCREF(obj).
CopyCtor_NoIncref(R, o) == R
CopyCtor(R, o) == Py_XINCREF(R, o)

Copy(h, a) ==
    /\ ~ub /\ h \notin live /\ a \in live
    /\ SetRt(CopyCtor(Rt, hobj[a]))
    /\ live' = live \cup {h}
    /\ hobj' = [hobj EXCEPT ![h] = hobj[a]]
    /\ Done("copy", <<>>, Null)

\* PyObj(PyObj&& other): obj(other.obj), other.obj = nullptr.
Move(h, a) ==
    /\ ~ub /\ h \notin live /\ a \in live
    /\ live' = live \cup {h}
    /\ hobj' = [hobj EXCEPT ![h] = hobj[a], ![a] = Null]
    /\ UNCHANGED <<heap, err, ub>>
    /\ Done("move", <<>>, Null)

\* operator=(const PyObj& other): nothing on self-assignment, else
\* Py_XDECREF(obj); obj = other.obj; Py_XINCREF(obj).
CopyAssign(a, b) ==
    /\ ~ub /\ a \in live /\ b \in live
    /\ IF a = b
       THEN UNCHANGED <<heap, err, ub, hobj>>
       ELSE /\ SetRt(Py_XINCREF(Py_XDECREF(Rt, hobj[a]), hobj[b]))
            /\ hobj' = [hobj EXCEPT ![a] = hobj[b]]
    /\ UNCHANGED live
    /\ Done("copy_assign", <<>>, Null)

\* operator=(PyObj&& other): nothing on self-assignment, else
\* Py_XDECREF(obj); obj = other.obj; other.obj = nullptr.
MoveAssign(a, b) ==
    /\ ~ub /\ a \in live /\ b \in live
    /\ IF a = b
       THEN UNCHANGED <<heap, err, ub, hobj>>
       ELSE /\ SetRt(Py_XDECREF(Rt, hobj[a]))
            /\ hobj' = [hobj EXCEPT ![a] = hobj[b], ![b] = Null]
    /\ UNCHANGED live
    /\ Done("move_assign", <<>>, Null)

\* ~PyObj(): Py_XDECREF(obj).
Dtor(R, o) == Py_XDECREF(R, o)

Destroy(h) ==
    /\ ~ub /\ h \in live
    /\ SetRt(Dtor(Rt, hobj[h]))
    /\ live' = live \ {h}
    /\ hobj' = [hobj EXCEPT ![h] = Null]
    /\ Done("destroy", <<>>, Null)

\* ------------------------------------------------- container construction
\* The values of the handles es, in order.
RECURSIVE ObjsOf(_)
ObjsOf(es) == IF es = <<>> THEN <<>> ELSE <<hobj[Head(es)]>> \o ObjsOf(Tail(es))

\* List(): PyObj(PyList_New(0)).  PyList_New returns a new reference and
\* PyObj(PyObject*) takes one more.
NewList(h) ==
    /\ ~ub /\ h \notin live /\ HasRoom(1)
    /\ SetRt(WrapRaw(PyNew(Rt, "list", <<>>, 0, <<>>), Fresh(heap)))
    /\ live' = live \cup {h}
    /\ hobj' = [hobj EXCEPT ![h] = Fresh(heap)]
    /\ Done("List()", <<>>, Null)

\* List(const std::initializer_list<PyObj>&): PyObj(PyList_New(n)), then per
\* element Py_XINCREF(value) and PyList_SetItem, which steals that count.
ListInit(h, es) ==
    /\ ~ub /\ h \notin live /\ HasRoom(1)
    /\ \A i \in 1..Len(es) : es[i] \in live
    /\ SetRt(IncrefAll(WrapRaw(PyNew(Rt, "list", ObjsOf(es), 0, <<>>), Fresh(heap)),
                       ObjsOf(es)))
    /\ live' = live \cup {h}
    /\ hobj' = [hobj EXCEPT ![h] = Fresh(heap)]
    /\ Done("List{}", <<>>, Null)

\* Tuple(const std::initializer_list<PyObj>&): the base is default-constructed
\* and obj = tuple takes over PyTuple_New's reference; per element
\* Py_XINCREF(value) and PyTuple_SetItem, which steals that count.
TupleInit(h, es) ==
    /\ ~ub /\ h \notin live /\ HasRoom(1)
    /\ \A i \in 1..Len(es) : es[i] \in live
    /\ SetRt(IncrefAll(PyNew(Rt, "tuple", ObjsOf(es), 0, <<>>), ObjsOf(es)))
    /\ live' = live \cup {h}
    /\ hobj' = [hobj EXCEPT ![h] = Fresh(heap)]
    /\ Done("Tuple{}", <<>>, Null)

\* ------------------------------------------------- runtime: containers
Ret(R, v) == [rt |-> R, ret |-> v]

Kind(H, o) == IF o = Null THEN "null" ELSE H[o].kind
Size(H, o) == IF H[o].kind = "str" THEN Len(H[o].text) ELSE Len(H[o].items)
Dangling(H, o) == o # Null /\ H[o].kind = "freed"

\* A wrapper that reads through a pointer to a deallocated value: undefined.
Undefined(R) == Ret([R EXCEPT !.ub = TRUE], Null)

\* PyErr_Clear.
PyErr_Clear(R) == [R EXCEPT !.err = FALSE]
Raise(R) == [R EXCEPT !.err = TRUE]

\* The runtime's ==: integers by value, texts by content, else identity.
PyEq(H, a, b) ==
    \/ a = b
    \/ /\ a # Null /\ b # Null
       /\ \/ H[a].kind = "int" /\ H[b].kind = "int" /\ H[a].val = H[b].val
          \/ H[a].kind = "str" /\ H[b].kind = "str" /\ H[a].text = H[b].text

Hashable(H, k) == H[k].kind \in {"int", "str", "tuple", "func"}

\* The position of key k in dict d's entries, 0 when absent.
DictPos(H, d, k) ==
    LET hits == {i \in DOMAIN H[d].items : PyEq(H, H[d].items[i][1], k)}
    IN IF hits = {} THEN 0 ELSE CHOOSE i \in hits : \A j \in hits : i <= j

\* PyList_SetItem(list, i, item): steals one count of item whether it succeeds
\* or not, and discards the count of the item it replaces.
PyList_SetItem(R, l, i, item) ==
    IF Kind(R.heap, l) # "list" \/ i < 0 \/ i >= Size(R.heap, l)
    THEN Ret(Raise(Py_XDECREF(R, item)), -1)
    ELSE Ret(Py_XDECREF([R EXCEPT !.heap[l].items[i + 1] = item],
                        R.heap[l].items[i + 1]), 0)

\* PyList_Append(list, item): the list takes its own count of item.
PyList_Append_Front(R, l, item) ==
    Ret(Py_XINCREF([R EXCEPT !.heap[l].items = <<item>> \o @], item), 0)
PyList_Append(R, l, item) ==
    IF Kind(R.heap, l) # "list" \/ item = Null
    THEN Ret(Raise(R), -1)
    ELSE Ret(Py_XINCREF([R EXCEPT !.heap[l].items = Append(@, item)], item), 0)

Without(s, i) == [j \in 1..(Len(s) - 1) |-> IF j < i THEN s[j] ELSE s[j + 1]]

\* PySequence_DelItem(list, i), 0 <= i < size: the list gives up its count.
PySequence_DelItem(R, l, i) ==
    Ret(Py_XDECREF([R EXCEPT !.heap[l].items = Without(@, i + 1)],
                   R.heap[l].items[i + 1]), 0)

\* PyDict_GetItem(dict, key): a borrowed value, NULL when the key is absent or
\* unhashable or the target no dict; it raises nothing.
PyDict_GetItem(R, d, k) ==
    IF Kind(R.heap, d) # "dict" \/ ~Hashable(R.heap, k) \/ DictPos(R.heap, d, k) = 0
    THEN Null
    ELSE R.heap[d].items[DictPos(R.heap, d, k)][2]

\* PyDict_SetItem(dict, key, value): the dict takes its own counts; an
\* unhashable key raises TypeError.
PyDict_SetItem(R, d, k, v) ==
    IF Kind(R.heap, d) # "dict" \/ ~Hashable(R.heap, k)
    THEN Ret(Raise(R), -1)
    ELSE LET p == DictPos(R.heap, d, k)
         IN IF p = 0
            THEN Ret(Py_XINCREF(Py_XINCREF(
                        [R EXCEPT !.heap[d].items = Append(@, <<k, v>>)], k), v), 0)
            ELSE Ret(Py_XDECREF(Py_XINCREF(
                        [R EXCEPT !.heap[d].items[p][2] = v], v),
                        R.heap[d].items[p][2]), 0)

\* `if (index < 0) index += size;`: a negative index counts from the end.
Wrapped_NoWrap(i, n) == i
Wrapped(i, n) == IF i < 0 THEN i + n ELSE i

\* The key of an item access: the value of a handle, or the integer of the
\* overloads that take a long (their PyLong temporary is created and released
\* within the call and is given no identity here unless a dict keeps it).
IsIndex(H, keyIsInt, k) == keyIsInt \/ (k # Null /\ H[k].kind = "int")
IndexOf(H, keyIsInt, k) == IF keyIsInt THEN k ELSE H[k].val
InRange(i, n) == Wrapped(i, n) >= 0 /\ Wrapped(i, n) < n

\* The position in dict d of the key equal to the integer i, 0 when absent.
DictPosInt(H, d, i) ==
    LET hits == {p \in DOMAIN H[d].items :
                    H[H[d].items[p][1]].kind = "int" /\ H[H[d].items[p][1]].val = i}
    IN IF hits = {} THEN 0 ELSE CHOOSE p \in hits : \A q \in hits : p <= q

\* PyObject_GetItem(o, key): a new reference, or NULL with an error raised.
PyObject_GetItem(R, o, keyIsInt, k) ==
    LET H == R.heap
    IN IF ~keyIsInt /\ k = Null THEN Ret(Raise(R), Null)
       ELSE CASE Kind(H, o) = "dict" ->
                LET p == IF keyIsInt THEN DictPosInt(H, o, k)
                         ELSE IF Hashable(H, k) THEN DictPos(H, o, k) ELSE 0
                IN IF p = 0 THEN Ret(Raise(R), Null)
                   ELSE Ret(Py_XINCREF(R, H[o].items[p][2]), H[o].items[p][2])
         [] Kind(H, o) \in {"list", "tuple"} ->
                IF IsIndex(H, keyIsInt, k) /\ InRange(IndexOf(H, keyIsInt, k), Size(H, o))
                THEN LET v == H[o].items[Wrapped(IndexOf(H, keyIsInt, k), Size(H, o)) + 1]
                     IN Ret(Py_XINCREF(R, v), v)
                ELSE Ret(Raise(R), Null)
         [] Kind(H, o) = "str" ->
                IF IsIndex(H, keyIsInt, k) /\ InRange(IndexOf(H, keyIsInt, k), Size(H, o))
                THEN Ret(PyNew(R, "str", <<>>, 0,
                               <<H[o].text[Wrapped(IndexOf(H, keyIsInt, k), Size(H, o)) + 1]>>),
                         Fresh(H))
                ELSE Ret(Raise(R), Null)
         [] OTHER -> Ret(Raise(R), Null)

\* PyObject_SetItem(o, key, value): 0, or -1 with an error raised (a NULL key
\* or value, an index out of range, a tuple or a text, which support no item
\* assignment).  The list keeps its own count of the value.
PyObject_SetItem(R, o, keyIsInt, k, v) ==
    LET H == R.heap
    IN IF v = Null \/ (~keyIsInt /\ k = Null) THEN Ret(Raise(R), -1)
       ELSE CASE Kind(H, o) = "dict" /\ ~keyIsInt -> PyDict_SetItem(R, o, k, v)
         [] Kind(H, o) = "list" ->
                IF IsIndex(H, keyIsInt, k) /\ InRange(IndexOf(H, keyIsInt, k), Size(H, o))
                THEN PyList_SetItem(Py_XINCREF(R, v), o,
                                    Wrapped(IndexOf(H, keyIsInt, k), Size(H, o)), v)
                ELSE Ret(Raise(R), -1)
         [] OTHER -> Ret(Raise(R), -1)

\* ----------------------------------------------------------- item access
\* A wrapper method applied through handles of which one points at a
\* deallocated value reads freed memory.
Reads(R, os, X) ==
    IF \E i \in DOMAIN os : Dangling(R.heap, os[i]) THEN Undefined(R) ELSE X

\* The handle a wrapper returns by `return PyObj(result)`.
Returned(R, o) == Ret(WrapRaw(R, o), o)

\* PyObj::get_item(const PyObj& key).  PyDict_GetItem with a NULL key
\* dereferences it.
get_item(R, o, k) ==
    IF o = Null THEN Ret(R, Null)
    ELSE Reads(R, <<o, k>>,
        IF Kind(R.heap, o) = "dict"
        THEN IF k = Null THEN Undefined(R)
             ELSE LET result == PyDict_GetItem(R, o, k)
                  IN IF result = Null THEN Ret(PyErr_Clear(R), Null)
                     ELSE Returned(Py_XINCREF(R, result), result)
        ELSE LET g == PyObject_GetItem(R, o, FALSE, k)
             IN IF g.ret = Null THEN Ret(PyErr_Clear(g.rt), Null)
                ELSE Returned(Py_XINCREF(g.rt, g.ret), g.ret))

\* PyObj::get_item(long index).
get_item_long(R, o, index) ==
    IF o = Null THEN Ret(R, Null)
    ELSE Reads(R, <<o>>,
        CASE Kind(R.heap, o) \in {"list", "tuple"} ->
                IF ~InRange(index, Size(R.heap, o)) THEN Ret(R, Null)
                ELSE LET item == R.heap[o].items[Wrapped(index, Size(R.heap, o)) + 1]
                     IN Returned(Py_XINCREF(R, item), item)
          [] Kind(R.heap, o) = "str" ->
                IF ~InRange(index, Size(R.heap, o)) THEN Ret(R, Null)
                ELSE LET temp == Fresh(R.heap)
                         R1 == PyNew(R, "str", <<>>, 0,
                                     <<R.heap[o].text[Wrapped(index, Size(R.heap, o)) + 1]>>)
                     IN Ret(Py_XDECREF(WrapRaw(R1, temp), temp), temp)
          [] OTHER ->
                LET g == PyObject_GetItem(R, o, TRUE, index)
                IN IF g.ret = Null THEN Ret(PyErr_Clear(g.rt), Null)
                   ELSE Returned(Py_XINCREF(g.rt, g.ret), g.ret))

\* PyObj::set_item(const PyObj& key, const PyObj& value): TRUE on success.
\* PyDict_SetItem with a NULL key or value dereferences it.
set_item(R, o, k, v) ==
    IF o = Null THEN Ret(R, FALSE)
    ELSE Reads(R, <<o, k, v>>,
        IF Kind(R.heap, o) = "dict"
        THEN IF k = Null \/ v = Null THEN Undefined(R)
             ELSE LET s == PyDict_SetItem(R, o, k, v) IN Ret(s.rt, s.ret = 0)
        ELSE LET s == PyObject_SetItem(R, o, FALSE, k, v) IN Ret(s.rt, s.ret = 0))

\* PyObj::set_item(long index, const PyObj& value).  On a dict the PyLong of
\* the index becomes the key when the dict has no equal key yet.
set_item_long(R, o, index, v) ==
    IF o = Null THEN Ret(R, FALSE)
    ELSE Reads(R, <<o, v>>,
        CASE Kind(R.heap, o) = "list" ->
                IF ~InRange(index, Size(R.heap, o)) THEN Ret(R, FALSE)
                ELSE LET s == PyList_SetItem(Py_XINCREF(R, v), o,
                                             Wrapped(index, Size(R.heap, o)), v)
                     IN Ret(s.rt, s.ret = 0)
          [] Kind(R.heap, o) = "dict" /\ v # Null ->
                IF DictPosInt(R.heap, o, index) # 0
                THEN LET s == PyDict_SetItem(R, o,
                                  R.heap[o].items[DictPosInt(R.heap, o, index)][1], v)
                     IN Ret(s.rt, s.ret = 0)
                ELSE LET py_index == Fresh(R.heap)
                         s == PyDict_SetItem(PyNew(R, "int", <<>>, index, <<>>), o, py_index, v)
                     IN Ret(Py_XDECREF(s.rt, py_index), s.ret = 0)
          [] OTHER ->
                LET s == PyObject_SetItem(R, o, TRUE, index, v) IN Ret(s.rt, s.ret = 0))

\* ------------------------------------------------------------ the views
\* List::operator[](long index) and Tuple::operator[](long index).
List_at(R, o, index) ==
    IF o = Null THEN Ret(R, Null)
    ELSE Reads(R, <<o>>,
        IF ~InRange(index, Size(R.heap, o)) THEN Ret(R, Null)
        ELSE LET item == R.heap[o].items[Wrapped(index, Size(R.heap, o)) + 1]
             IN Returned(Py_XINCREF(R, item), item))

Tuple_at(R, o, index) == List_at(R, o, index)

\* Str(): PyObj(""), the new text's reference is the handle's.
Str_default(R) == Ret(PyNew(R, "str", <<>>, 0, <<>>), Fresh(R.heap))

\* Str::operator[](long index): len() is 0 for an empty handle.
Str_at(R, o, index) ==
    Reads(R, <<o>>,
        IF o = Null \/ ~InRange(index, Size(R.heap, o)) THEN Str_default(R)
        ELSE LET temp == Fresh(R.heap)
                 R1 == PyNew(R, "str", <<>>, 0,
                             <<R.heap[o].text[Wrapped(index, Size(R.heap, o)) + 1]>>)
             IN Ret(Py_XDECREF(WrapRaw(R1, temp), temp), temp))

\* List::set(long index, const PyObj& value): the value's count is handed to
\* PyList_SetItem as it is.
List_set(R, o, index, v) ==
    IF o = Null THEN Ret(R, FALSE)
    ELSE Reads(R, <<o, v>>,
        LET s == PyList_SetItem(R, o, index, v) IN Ret(s.rt, s.ret = 0))

\* List::append(const PyObj& value).
List_append(R, o, v) ==
    Reads(R, <<o, v>>, Ret(PyList_Append(R, o, v).rt, Null))

\* List::pop(int index = -1).
List_pop(R, o, index) ==
    IF o = Null THEN Ret(R, Null)
    ELSE Reads(R, <<o>>,
        IF ~InRange(index, Size(R.heap, o)) THEN Ret(R, Null)
        ELSE LET i == Wrapped(index, Size(R.heap, o))
                 item == R.heap[o].items[i + 1]
             IN Returned(PySequence_DelItem(Py_XINCREF(R, item), o, i).rt, item))

\* Dict::add(const PyObj& key, const PyObj& value) and Dict::set.
Dict_add(R, o, k, v) ==
    Reads(R, <<o, k, v>>,
        IF k = Null \/ v = Null THEN Undefined(R)
        ELSE LET s == PyDict_SetItem(R, o, k, v) IN Ret(s.rt, s.ret = 0))

\* Dict::get(const PyObj& key).
Dict_get(R, o, k) ==
    Reads(R, <<o, k>>,
        IF k = Null THEN Undefined(R)
        ELSE LET result == PyDict_GetItem(R, o, k)
             IN IF result = Null THEN Ret(R, Null)
                ELSE Returned(Py_XINCREF(R, result), result))

\* ------------------------------------------------------------- operations
Indices == (0 - MaxLen - 1)..MaxLen

IsA(h, k) == h \in live /\ Kind(heap, hobj[h]) = k

\* `PyObj h = <call>`: the handle h is constructed from what the call returns.
Bind(h, r, name, arg) ==
    /\ SetRt(r.rt)
    /\ live' = live \cup {h}
    /\ hobj' = [hobj EXCEPT ![h] = IF r.rt.ub THEN Null ELSE r.ret]
    /\ Done(name, arg, IF r.rt.ub THEN Null ELSE r.ret)

\* A call made for its effect and its plain (bool, long) result.
Effect(r, name, arg) ==
    /\ SetRt(r.rt)
    /\ UNCHANGED <<live, hobj>>
    /\ Done(name, arg, IF r.rt.ub THEN Null ELSE r.ret)

GetItem(h, a, k) ==
    /\ ~ub /\ h \notin live /\ a \in live /\ k \in live /\ HasRoom(1)
    /\ Bind(h, get_item(Rt, hobj[a], hobj[k]), "get_item", <<a, k>>)

GetItemLong(h, a, i) ==
    /\ ~ub /\ h \notin live /\ a \in live /\ HasRoom(1)
    /\ Bind(h, get_item_long(Rt, hobj[a], i), "get_item(long)", <<a, i>>)

SetItem(a, k, v) ==
    /\ ~ub /\ a \in live /\ k \in live /\ v \in live
    /\ Effect(set_item(Rt, hobj[a], hobj[k], hobj[v]), "set_item", <<a, k, v>>)

SetItemLong(a, i, v) ==
    /\ ~ub /\ a \in live /\ v \in live /\ HasRoom(1)
    /\ Effect(set_item_long(Rt, hobj[a], i, hobj[v]), "set_item(long)", <<a, i, v>>)

ListAt(h, a, i) ==
    /\ ~ub /\ h \notin live /\ IsA(a, "list")
    /\ Bind(h, List_at(Rt, hobj[a], i), "List[]", <<a, i>>)

TupleAt(h, a, i) ==
    /\ ~ub /\ h \notin live /\ IsA(a, "tuple")
    /\ Bind(h, Tuple_at(Rt, hobj[a], i), "Tuple[]", <<a, i>>)

StrAt(h, a, i) ==
    /\ ~ub /\ h \notin live /\ IsA(a, "str") /\ HasRoom(1)
    /\ Bind(h, Str_at(Rt, hobj[a], i), "Str[]", <<a, i>>)

ListSet(a, i, v) ==
    /\ ~ub /\ IsA(a, "list") /\ v \in live
    /\ Effect(List_set(Rt, hobj[a], i, hobj[v]), "List::set", <<a, i, v>>)

ListAppend(a, v) ==
    /\ ~ub /\ IsA(a, "list") /\ v \in live /\ Size(heap, hobj[a]) < MaxStored
    /\ Effect(List_append(Rt, hobj[a], hobj[v]), "List::append", <<a, v>>)

ListPop(h, a) ==
    /\ ~ub /\ h \notin live /\ IsA(a, "list")
    /\ Bind(h, List_pop(Rt, hobj[a], -1), "List::pop", <<a>>)

DictAdd(a, k, v) ==
    /\ ~ub /\ IsA(a, "dict") /\ k \in live /\ v \in live
    /\ Size(heap, hobj[a]) < MaxStored
    /\ Effect(Dict_add(Rt, hobj[a], hobj[k], hobj[v]), "Dict::add", <<a, k, v>>)

DictGet(h, a, k) ==
    /\ ~ub /\ h \notin live /\ IsA(a, "dict") /\ k \in live
    /\ Bind(h, Dict_get(Rt, hobj[a], hobj[k]), "Dict::get", <<a, k>>)

\* Dict(): PyObj(PyDict_New()), as List().
NewDict(h) ==
    /\ ~ub /\ h \notin live /\ HasRoom(1)
    /\ SetRt(WrapRaw(PyNew(Rt, "dict", <<>>, 0, <<>>), Fresh(heap)))
    /\ live' = live \cup {h}
    /\ hobj' = [hobj EXCEPT ![h] = Fresh(heap)]
    /\ Done("Dict()", <<>>, Null)

\* ------------------------------------------------------- specifications
Init ==
    /\ heap = [o \in Obj |-> NoObj]
    /\ err = FALSE
    /\ ub = FALSE
    /\ live = {}
    /\ hobj = [h \in Handles |-> Null]
    /\ last = [op |-> "start", arg |-> <<>>, ret |-> Null]

\* The host program uses only construction, copy, move, assignment and
\* destruction of handles, and builds containers from them.
OwnBudget == Cardinality(Obj \ Unused(heap)) <= MaxOwnObj

NextOwn ==
    /\ \/ \E h \in OwnHandles : DefaultHandle(h)
       \/ \E h \in OwnHandles : Literal(h, 1)
       \/ \E h, a \in OwnHandles : TupleInit(h, <<a>>)
       \/ \E h, a \in OwnHandles : Copy(h, a)
       \/ \E h, a \in OwnHandles : Move(h, a)
       \/ \E a, b \in OwnHandles : CopyAssign(a, b)
       \/ \E a, b \in OwnHandles : MoveAssign(a, b)
       \/ \E h \in OwnHandles : Destroy(h)
    /\ OwnBudget'

SpecOwn == Init /\ [][NextOwn]_vars

\* The host program at large, with NumOwn handles: it builds lists and dicts,
\* stores into them and reads from them.  Counts above MaxRc are not followed.
CountsFollowed == \A o \in Obj : heap[o].rc <= MaxRc

Next ==
    /\ \/ \E h \in OwnHandles : Literal(h, 1)
       \/ \E h \in OwnHandles : NewList(h)
       \/ \E h \in OwnHandles : NewDict(h)
       \/ \E h, a \in OwnHandles : ListInit(h, <<a>>)
       \/ \E h, a \in OwnHandles : Copy(h, a)
       \/ \E h \in OwnHandles : Destroy(h)
       \/ \E a, v \in OwnHandles : ListAppend(a, v)
       \/ \E a, v \in OwnHandles : ListSet(a, 0, v)
       \/ \E a, v \in OwnHandles : SetItemLong(a, 0, v)
       \/ \E a, k, v \in OwnHandles : DictAdd(a, k, v)
       \/ \E h, a \in OwnHandles : GetItemLong(h, a, 0)
       \/ \E h, a \in OwnHandles : ListAt(h, a, 0)
       \/ \E h, a \in OwnHandles : ListPop(h, a)
       \/ \E h, a, k \in OwnHandles : DictGet(h, a, k)
    /\ CountsFollowed' /\ OwnBudget'

Spec == Init /\ [][Next]_vars

\* ----------------------------------------------------------------- C2
Rc(H, o) == H[o].rc

\* How often x occurs in the sequence s.
Occ(s, x) == Cardinality({i \in DOMAIN s : s[i] = x})

RECURSIVE SumOcc(_, _, _)
SumOcc(H, S, x) ==
    IF S = {} THEN 0
    ELSE LET c == CHOOSE c \in S : TRUE
         IN Occ(RefsOf(H[c]), x) + SumOcc(H, S \ {c}, x)

\* The values this step deallocates, and the counts of x they held.
FreedNow == {o \in Obj : Allocated(heap, o) /\ heap'[o].kind = "freed"}
Dropped(x) == SumOcc(heap, FreedNow, x)
One(b) == IF b THEN 1 ELSE 0

\* The step acquires one count of acq and releases one of rel (Null: none):
\* every value's count changes by exactly that, less the counts held by the
\* containers the release deallocates, and a value is deallocated exactly when
\* its count reaches zero.
Balanced(acq, rel) ==
    /\ ~ub'
    /\ \A x \in Obj :
        Allocated(heap, x) =>
            LET n == Rc(heap, x) + One(x = acq) - One(x = rel) - Dropped(x)
            IN /\ Rc(heap', x) = n
               /\ (heap'[x].kind = "freed") = (n = 0)
               /\ n > 0 => heap'[x] = [heap[x] EXCEPT !.rc = n]
    /\ \A x \in Obj : ~Allocated(heap, x) => heap'[x] = heap[x]

(* C2 as stated: copy-construction adds 1 to the wrapped value's count;
   move-construction and move-assignment leave the moved value's count
   unchanged and leave the source handle empty; copy-assignment subtracts 1
   from the target's previous value and adds 1 to the newly wrapped value;
   destruction subtracts 1 from the wrapped value.  Read for an assignment
   between two different handles. *)
C2_AsStated ==
    [][/\ \A h, a \in OwnHandles :
            Copy(h, a) /\ hobj[a] # Null => Rc(heap', hobj[a]) = Rc(heap, hobj[a]) + 1
       /\ \A h, a \in OwnHandles :
            Move(h, a) =>
                /\ hobj'[a] = Null
                /\ hobj[a] # Null => Rc(heap', hobj[a]) = Rc(heap, hobj[a])
       /\ \A a, b \in OwnHandles :
            MoveAssign(a, b) /\ a # b =>
                /\ hobj'[b] = Null
                /\ hobj[b] # Null => Rc(heap', hobj[b]) = Rc(heap, hobj[b])
       /\ \A a, b \in OwnHandles :
            CopyAssign(a, b) /\ hobj[a] # hobj[b] =>
                /\ hobj[a] # Null => Rc(heap', hobj[a]) = Rc(heap, hobj[a]) - 1
                /\ hobj[b] # Null => Rc(heap', hobj[b]) = Rc(heap, hobj[b]) + 1
       /\ \A h \in OwnHandles :
            Destroy(h) /\ hobj[h] # Null => Rc(heap', hobj[h]) = Rc(heap, hobj[h]) - 1
      ]_vars

(* C2 as amended: copy-construction adds 1 to the wrapped value's count and
   changes no other; move-construction changes no count and leaves the source
   empty; assignment of a handle to itself changes nothing (a self-move keeps
   the handle's value); copy-assignment from another handle releases the
   target's previous value and adds 1 to the newly wrapped value;
   move-assignment from another handle releases the target's previous value,
   adds nothing and leaves the source empty, so the moved value's count drops
   by 1 when the target already wrapped it; destruction releases the wrapped
   value.  A release subtracts 1, and a value whose count reaches zero is
   deallocated and releases each value it holds in turn. *)
C2_OwnershipDeltas ==
    [][/\ \A h, a \in OwnHandles :
            Copy(h, a) => Balanced(hobj[a], Null) /\ hobj'[a] = hobj[a] /\ hobj'[h] = hobj[a]
       /\ \A h, a \in OwnHandles :
            Move(h, a) => heap' = heap /\ hobj'[a] = Null /\ hobj'[h] = hobj[a]
       /\ \A a \in OwnHandles :
            CopyAssign(a, a) \/ MoveAssign(a, a) => heap' = heap /\ hobj' = hobj
       /\ \A a, b \in OwnHandles :
            CopyAssign(a, b) /\ a # b =>
                Balanced(hobj[b], hobj[a]) /\ hobj'[a] = hobj[b] /\ hobj'[b] = hobj[b]
       /\ \A a, b \in OwnHandles :
            MoveAssign(a, b) /\ a # b =>
                Balanced(Null, hobj[a]) /\ hobj'[a] = hobj[b] /\ hobj'[b] = Null
       /\ \A h \in OwnHandles :
            Destroy(h) => Balanced(Null, hobj[h]) /\ hobj'[h] = Null
      ]_vars

\* A move-assignment has run: its source is empty and its target is the only
\* holder of a value, while an earlier release has deallocated another value.
C2_Witness ==
    /\ last.op = "move_assign"
    /\ \E a, b \in live :
        /\ a # b /\ hobj[b] = Null
        /\ hobj[a] # Null /\ Rc(heap, hobj[a]) = 1
    /\ \E o \in Obj : heap[o].kind = "freed"

\* ----------------------------------------------------------------- C1
\* The counts of x that live handles and allocated containers hold.
HandleRefs(x) == Cardinality({h \in live : hobj[h] = x})
ContainerRefs(x) == SumOcc(heap, {c \in Obj : Allocated(heap, c)}, x)

(* C1 as stated: at every point a value's reference count equals the number
   of references held outside the wrapper (here: by the containers that hold
   it) plus one for each live non-empty handle to it, so that once every
   handle to a value is destroyed no wrapper-owned reference remains. *)
C1_CountIsHandlesPlusExternal ==
    \A x \in Obj :
        Allocated(heap, x) => Rc(heap, x) = ContainerRefs(x) + HandleRefs(x)

\* ----------------------------------------------------------------- C3
(* C3 as stated: a container owns a reference to each element stored in it,
   so when every handle to a stored value is destroyed the value's count does
   not reach zero while the container still holds it: no allocated container
   holds a deallocated value. *)
C3_ContainerKeepsStoredValues ==
    \A c \in Obj :
        Allocated(heap, c) =>
            \A i \in DOMAIN RefsOf(heap[c]) :
                RefsOf(heap[c])[i] # Null => Allocated(heap, RefsOf(heap[c])[i])

\* ------------------------------------------------------- kinds and views
Views == {"Str", "List", "Tuple", "Set", "Dict", "Function"}

KindOfView(V) ==
    CASE V = "Str" -> "str" [] V = "List" -> "list" [] V = "Tuple" -> "tuple"
      [] V = "Set" -> "set" [] V = "Dict" -> "dict" [] V = "Function" -> "func"

Sized == {"str", "list", "tuple", "set", "dict"}

\* PyObj::is_empty(): the checks it makes, in its order.
is_empty(H, o) ==
    IF o = Null THEN TRUE
    ELSE IF H[o].kind = "str" THEN Len(H[o].text) = 0
    ELSE IF H[o].kind = "list" THEN Len(H[o].items) = 0
    ELSE IF H[o].kind = "dict" THEN Len(H[o].items) = 0
    ELSE IF H[o].kind = "set" THEN Len(H[o].items) = 0
    ELSE FALSE

\* Str(PyObject*), Str(const PyObj&), List(PyObject*), Tuple(PyObject*),
\* Set(PyObject*), Dict(PyObject*), Function(PyObject*): PyObj(o);
\* Function(const PyObj& o): the copy constructor.  None looks at o's kind.
View_from(R, V, o) == IF V = "Function" THEN CopyCtor(R, o) ELSE WrapRaw(R, o)

ViewFrom(h, V, a) ==
    /\ ~ub /\ h \notin live /\ a \in live
    /\ SetRt(View_from(Rt, V, hobj[a]))
    /\ live' = live \cup {h}
    /\ hobj' = [hobj EXCEPT ![h] = hobj[a]]
    /\ Done("view", [h |-> h, view |-> V, a |-> a], Null)

IsEmpty(a) ==
    /\ ~ub /\ a \in live /\ ~Dangling(heap, hobj[a])
    /\ UNCHANGED <<heap, err, ub, live, hobj>>
    /\ Done("is_empty", <<a>>, is_empty(heap, hobj[a]))

\* What the host program holds in its first handle when the behaviour starts:
\* nothing, a number, a boolean, a text, a function, or a container that is
\* empty or holds the integer 1 (as key and as value in a dict).  The counts
\* are those the constructors leave: PyObj(int), PyObj(const char*) and
\* Tuple{...} keep the new reference, PyObj(bool) shares the runtime's
\* singleton, List, Set and Dict wrap their new value with PyObj(PyObject*).
Value(k, c, its, v, t) == [kind |-> k, rc |-> c, items |-> its, val |-> v, text |-> t]

Alone(rec) == [heap |-> [o \in Obj |-> IF o = 1 THEN rec ELSE NoObj], obj |-> 1]

Holding(rec, c) ==
    [heap |-> [o \in Obj |-> IF o = 1 THEN Value("int", c, <<>>, 1, <<>>)
                             ELSE IF o = 2 THEN rec ELSE NoObj],
     obj |-> 2]

KindSeeds ==
    {[heap |-> [o \in Obj |-> NoObj], obj |-> Null]}
    \cup {Alone(Value("int", 1, <<>>, v, <<>>)) : v \in {0, 1}}
    \cup {Alone(Value("bool", 2, <<>>, v, <<>>)) : v \in {0, 1}}
    \cup {Alone(Value("str", 1, <<>>, 0, t)) : t \in {<<>>, <<"a">>}}
    \cup {Alone(Value("func", 1, <<>>, 0, <<>>))}
    \cup {Alone(Value(k, 2, <<>>, 0, <<>>)) : k \in {"list", "tuple", "set", "dict"}}
    \cup {Holding(Value(k, 2, <<1>>, 0, <<>>), 1) : k \in {"list", "set"}}
    \cup {Holding(Value("tuple", 1, <<1>>, 0, <<>>), 1)}
    \cup {Holding(Value("dict", 2, << <<1, 1>> >>, 0, <<>>), 2)}

Seeded(seeds) ==
    /\ \E s \in seeds :
        /\ heap = s.heap
        /\ hobj = [h \in Handles |-> IF h = 1 THEN s.obj ELSE Null]
    /\ err = FALSE
    /\ ub = FALSE
    /\ live = {1}
    /\ last = [op |-> "start", arg |-> <<>>, ret |-> Null]

InitKind == Seeded(KindSeeds)

NextKind ==
    \/ \E h, a \in Handles : \E V \in Views : ViewFrom(h, V, a)
    \/ \E a \in Handles : IsEmpty(a)
    \/ \E h \in Handles : Destroy(h)

SpecKind == InitKind /\ [][NextKind]_vars

\* ----------------------------------------------------------------- C4
(* C4 as stated: constructing a typed view from a value whose runtime kind
   does not match the view yields the view's empty/default value (an empty
   text, list, tuple, set or dict; an empty handle for Function) and not a view
   wrapping the mismatched value; from a value of the matching kind it wraps
   that same value.  Read for a source handle that wraps a value. *)
C4_ViewNormalisesMismatch ==
    last.op = "view" /\ hobj[last.arg.a] # Null =>
        LET h == last.arg.h
            k == KindOfView(last.arg.view)
            o == hobj[last.arg.a]
        IN IF Kind(heap, o) = k THEN hobj[h] = o
           ELSE IF k = "func" THEN hobj[h] = Null
           ELSE /\ hobj[h] # Null
                /\ Kind(heap, hobj[h]) = k
                /\ Size(heap, hobj[h]) = 0

\* ----------------------------------------------------------------- C5
(* C5 as stated: is_empty() returns true exactly when the handle is null or
   wraps a text, list, tuple, dict or set of length zero, and false for every
   other value, including numeric zero, boolean false and every non-empty
   container. *)
C5_IsEmptyExactly ==
    last.op = "is_empty" =>
        LET o == hobj[last.arg[1]]
        IN last.ret = (o = Null \/ (Kind(heap, o) \in Sized /\ Size(heap, o) = 0))

\* ------------------------------------------------------------ index access
Seqs(S, n) == UNION {[1..m -> S] : m \in 0..n}
Chars == {"a", "b"}

\* A list or a tuple of the integers 1 and 2 (values 1 and 2 of the heap), as
\* List{...} and Tuple{...} leave it: each element counted once per place it
\* takes, the list counted twice, the empty tuple of Tuple() counted twice.
SequenceOf(k, its) ==
    [heap |-> [o \in Obj |->
                  IF o \in {1, 2}
                  THEN IF Occ(its, o) = 0 THEN NoObj
                       ELSE Value("int", Occ(its, o), <<>>, o, <<>>)
                  ELSE IF o = 3
                  THEN Value(k, IF k = "list" \/ its = <<>> THEN 2 ELSE 1, its, 0, <<>>)
                  ELSE NoObj],
     obj |-> 3]

IndexSeeds ==
    {SequenceOf(k, its) : k \in {"list", "tuple"}, its \in Seqs({1, 2}, MaxLen)}
    \cup {Alone(Value("str", 1, <<>>, 0, t)) : t \in Seqs(Chars, MaxLen)}

InitIndex == Seeded(IndexSeeds)

NextIndex ==
    /\ \/ \E h \in Handles : \E i \in Indices : GetItemLong(h, 1, i)
       \/ \E h \in Handles : \E i \in Indices : ListAt(h, 1, i)
       \/ \E h \in Handles : \E i \in Indices : TupleAt(h, 1, i)
       \/ \E h \in Handles : \E i \in Indices : StrAt(h, 1, i)
       \/ \E h \in Handles : Destroy(h)
    /\ CountsFollowed'

SpecIndex == InitIndex /\ [][NextIndex]_vars

\* ----------------------------------------------------------------- C6
IndexOps == {"get_item(long)", "List[]", "Tuple[]", "Str[]"}

(* C6: for a list, tuple or text of length N, index access (get_item(long),
   List::operator[], Tuple::operator[], Str::operator[]) with index i returns
   the element at position i when 0 <= i < N and the element at position i+N
   when -N <= i < 0 (for a text: a text of that one character); for every
   i >= N or i < -N it returns the sentinel (an empty handle, the empty text
   for Str::operator[]).  It raises nothing: the runtime's error indicator is
   after the access what it was before it. *)
C6_IndexAccess ==
    [][last'.op \in IndexOps =>
        LET o == hobj[last'.arg[1]]
            i == last'.arg[2]
            r == last'.ret
        IN (o # Null /\ heap[o].kind \in {"list", "tuple", "str"}) =>
            LET N == Size(heap, o)
                pos == IF i >= 0 THEN i ELSE i + N
            IN /\ ~ub'
               /\ err' = err
               /\ IF 0 - N <= i /\ i < N
                  THEN IF heap[o].kind = "str"
                       THEN /\ r # Null
                            /\ heap'[r].kind = "str"
                            /\ heap'[r].text = <<heap[o].text[pos + 1]>>
                       ELSE r = heap[o].items[pos + 1]
                  ELSE IF last'.op = "Str[]"
                       THEN r # Null /\ heap'[r].kind = "str" /\ heap'[r].text = <<>>
                       ELSE r = Null
      ]_vars

\* An access with a negative index has returned the element that many places
\* from the end of a sequence of MaxLen different elements.
C6_Witness ==
    /\ last.op \in {"get_item(long)", "List[]", "Tuple[]"}
    /\ last.arg[2] < 0 /\ last.arg[2] >= 0 - MaxLen
    /\ LET o == hobj[last.arg[1]]
       IN /\ o # Null
          /\ heap[o].kind \in {"list", "tuple"}
          /\ Size(heap, o) = MaxLen
          /\ heap[o].items[1] # heap[o].items[MaxLen]
          /\ last.ret = heap[o].items[last.arg[2] + MaxLen + 1]

\* ------------------------------------------------------------ item storing
\* The host program holds a target in its first handle (nothing, a list, a
\* tuple, a text, or a dict that is empty or maps 1 to 2) and the integers 1
\* and 2 in its second and third handle.
Target(rec, its) ==
    [o \in Obj |->
        IF o \in {1, 2} THEN Value("int", Occ(its, o) + 1, <<>>, o, <<>>)
        ELSE IF o = 3 THEN rec ELSE NoObj]

StoreSeeds ==
    {Target(NoObj, <<>>)}
    \cup {Target(Value("list", 2, its, 0, <<>>), its) : its \in Seqs({1, 2}, MaxLen)}
    \cup {Target(Value("tuple", IF its = <<>> THEN 2 ELSE 1, its, 0, <<>>), its) :
            its \in Seqs({1, 2}, MaxLen)}
    \cup {Target(Value("str", 1, <<>>, 0, t), <<>>) : t \in Seqs(Chars, MaxLen)}
    \cup {Target(Value("dict", 2, <<>>, 0, <<>>), <<>>),
          Target(Value("dict", 2, << <<1, 2>> >>, 0, <<>>), <<1, 2>>)}

InitStore ==
    /\ heap \in StoreSeeds
    /\ hobj = [h \in Handles |->
                 IF h = 1 THEN (IF heap[3].kind = "none" THEN Null ELSE 3)
                 ELSE IF h \in {2, 3} THEN h - 1 ELSE Null]
    /\ err = FALSE
    /\ ub = FALSE
    /\ live = {1, 2, 3}
    /\ last = [op |-> "start", arg |-> <<>>, ret |-> Null]

NextStore ==
    /\ \/ \E v \in Handles \ {1} : \E i \in Indices : SetItemLong(1, i, v)
       \/ \E k \in Handles : \E v \in Handles \ {1} : SetItem(1, k, v)
       \/ \E h \in Handles : \E i \in Indices : GetItemLong(h, 1, i)
       \/ \E h, k \in Handles : GetItem(h, 1, k)
       \/ \E h \in Handles \ {1} : Destroy(h)
    /\ CountsFollowed'

SpecStore == InitStore /\ [][NextStore]_vars

\* ----------------------------------------------------------------- C7
\* The index a set_item call addresses: its long, or the integer its key wraps.
AsIndex(H, op, key) == IF op = "set_item(long)" THEN key ELSE H[hobj[key]].val

(* C7 as stated: set_item mirrors get_item.  On a dict it stores the value
   under the key and returns true; on a list of length N with index i it
   returns true and puts the value at the position get_item(i) reads when
   -N <= i < N, and returns false leaving the list as it was when i is out of
   range; on a null handle, a tuple or a text it returns false and changes
   nothing.  Read for a value handle that wraps a value and for a key that is
   an integer. *)
C7_SetItemMirrorsGetItem ==
    [][(/\ last'.op \in {"set_item", "set_item(long)"}
        /\ hobj[last'.arg[3]] # Null
        /\ last'.op = "set_item" => Kind(heap, hobj[last'.arg[2]]) = "int") =>
        LET o == hobj[last'.arg[1]]
            v == hobj[last'.arg[3]]
            i == AsIndex(heap, last'.op, last'.arg[2])
        IN CASE Kind(heap, o) \in {"null", "tuple", "str"} ->
                    last'.ret = FALSE /\ heap' = heap /\ err' = err /\ ub' = ub
             [] Kind(heap, o) = "dict" ->
                    /\ last'.ret = TRUE
                    /\ DictPosInt(heap', o, i) # 0
                    /\ heap'[o].items[DictPosInt(heap', o, i)][2] = v
             [] Kind(heap, o) = "list" ->
                    LET N == Size(heap, o)
                        pos == IF i >= 0 THEN i ELSE i + N
                    IN IF 0 - N <= i /\ i < N
                       THEN /\ last'.ret = TRUE
                            /\ Size(heap', o) = N
                            /\ heap'[o].items[pos + 1] = v
                       ELSE last'.ret = FALSE /\ heap'[o].items = heap[o].items
             [] OTHER -> TRUE
      ]_vars

\* ---------------------------------------------------------------- searching
\* The positions at which the text nd occurs in the text hay.
Matches(hay, nd) ==
    {p \in 0..(Len(hay) - Len(nd)) : SubSeq(hay, p + 1, p + Len(nd)) = nd}

Lowest(S) == CHOOSE p \in S : \A q \in S : p <= q
Highest(S) == CHOOSE p \in S : \A q \in S : q <= p

\* The places (from 0) at which sequence its holds a value equal to v.
Places(H, its, v) == {p \in 0..(Len(its) - 1) : PyEq(H, its[p + 1], v)}

\* PyObject_CallMethod(obj, name, ...) returns NULL when an error is already
\* pending at its return (the runtime discards the method's result and raises
\* SystemError), and when the method raises; else the method's result.
\* `raises` and `value` are what the method does when called cleanly.
PyObject_CallMethod(R, raises, value, miss) ==
    IF R.err THEN Ret(R, miss)
    ELSE IF raises THEN Ret(Raise(R), miss)
    ELSE Ret(R, value)

\* Str::find, Str::rfind: `result ? PyLong_AsLong(result) : -1`.
Str_find(R, o, sub) ==
    LET m == Matches(R.heap[o].text, R.heap[sub].text)
    IN PyObject_CallMethod(R, FALSE, IF m = {} THEN -1 ELSE Lowest(m), -1)

Str_rfind(R, o, sub) ==
    LET m == Matches(R.heap[o].text, R.heap[sub].text)
    IN PyObject_CallMethod(R, FALSE, IF m = {} THEN -1 ELSE Highest(m), -1)

\* Str::index, Str::rindex: the method raises ValueError when there is no match.
Str_index(R, o, sub) ==
    LET m == Matches(R.heap[o].text, R.heap[sub].text)
    IN PyObject_CallMethod(R, m = {}, IF m = {} THEN -1 ELSE Lowest(m), -1)

Str_rindex(R, o, sub) ==
    LET m == Matches(R.heap[o].text, R.heap[sub].text)
    IN PyObject_CallMethod(R, m = {}, IF m = {} THEN -1 ELSE Highest(m), -1)

\* List::index: list.index raises ValueError when no element equals the value.
List_index(R, o, v) ==
    LET m == Places(R.heap, R.heap[o].items, v)
    IN PyObject_CallMethod(R, m = {}, IF m = {} THEN -1 ELSE Lowest(m), -1)

\* List::count: `result ? PyLong_AsLong(result) : 0`.
List_count(R, o, v) ==
    PyObject_CallMethod(R, FALSE, Cardinality(Places(R.heap, R.heap[o].items, v)), 0)

\* List::remove: list.remove drops the first element equal to the value, or
\* raises ValueError.
List_remove(R, o, v) ==
    LET m == Places(R.heap, R.heap[o].items, v)
        c == PyObject_CallMethod(R, m = {}, 0, -1)
    IN IF c.ret = -1 THEN Ret(c.rt, Null)
       ELSE Ret(PySequence_DelItem(R, o, Lowest(m)).rt, Null)

\* Tuple::index: PySequence_Index stops at the first equal element; when it
\* runs to the end it fails, and the error is cleared.
Tuple_index(R, o, v) ==
    IF o = Null THEN Ret(R, -1)
    ELSE LET m == Places(R.heap, R.heap[o].items, v)
         IN IF m = {} THEN Ret(PyErr_Clear(R), -1) ELSE Ret(R, Lowest(m))

\* Tuple::count: PySequence_Count runs to the end, where a pending error makes
\* it fail; the error is cleared and 0 returned.
Tuple_count(R, o, v) ==
    IF o = Null THEN Ret(R, 0)
    ELSE IF R.err THEN Ret(PyErr_Clear(R), 0)
    ELSE Ret(R, Cardinality(Places(R.heap, R.heap[o].items, v)))

StrFind(a, s) ==
    /\ ~ub /\ IsA(a, "str") /\ IsA(s, "str")
    /\ Effect(Str_find(Rt, hobj[a], hobj[s]), "Str::find", <<a, s>>)

StrRfind(a, s) ==
    /\ ~ub /\ IsA(a, "str") /\ IsA(s, "str")
    /\ Effect(Str_rfind(Rt, hobj[a], hobj[s]), "Str::rfind", <<a, s>>)

StrIndex(a, s) ==
    /\ ~ub /\ IsA(a, "str") /\ IsA(s, "str")
    /\ Effect(Str_index(Rt, hobj[a], hobj[s]), "Str::index", <<a, s>>)

StrRindex(a, s) ==
    /\ ~ub /\ IsA(a, "str") /\ IsA(s, "str")
    /\ Effect(Str_rindex(Rt, hobj[a], hobj[s]), "Str::rindex", <<a, s>>)

ListIndex(a, v) ==
    /\ ~ub /\ IsA(a, "list") /\ v \in live /\ Allocated(heap, hobj[v])
    /\ Effect(List_index(Rt, hobj[a], hobj[v]), "List::index", <<a, v>>)

ListCount(a, v) ==
    /\ ~ub /\ IsA(a, "list") /\ v \in live /\ Allocated(heap, hobj[v])
    /\ Effect(List_count(Rt, hobj[a], hobj[v]), "List::count", <<a, v>>)

ListRemove(a, v) ==
    /\ ~ub /\ IsA(a, "list") /\ v \in live /\ Allocated(heap, hobj[v])
    /\ Effect(List_remove(Rt, hobj[a], hobj[v]), "List::remove", <<a, v>>)

TupleIndex(a, v) ==
    /\ ~ub /\ IsA(a, "tuple") /\ v \in live /\ Allocated(heap, hobj[v])
    /\ Effect(Tuple_index(Rt, hobj[a], hobj[v]), "Tuple::index", <<a, v>>)

TupleCount(a, v) ==
    /\ ~ub /\ IsA(a, "tuple") /\ v \in live /\ Allocated(heap, hobj[v])
    /\ Effect(Tuple_count(Rt, hobj[a], hobj[v]), "Tuple::count", <<a, v>>)

\* The host program holds a text and a text to look for, or a list or tuple
\* of the integers 1 and 2 and one of these integers to look for.
SearchSeeds ==
    {[heap |-> [o \in Obj |-> IF o = 1 THEN Value("str", 1, <<>>, 0, t)
                              ELSE IF o = 2 THEN Value("str", 1, <<>>, 0, u)
                              ELSE NoObj],
      subj |-> 1, arg |-> 2] : t \in Seqs(Chars, MaxLen), u \in Seqs(Chars, MaxLen)}
    \cup
    {[heap |-> [o \in Obj |->
                  IF o \in {1, 2}
                  THEN IF Occ(its, o) = 0 /\ o # v THEN NoObj
                       ELSE Value("int", Occ(its, o) + (IF o = v THEN 1 ELSE 0), <<>>, o, <<>>)
                  ELSE IF o = 3
                  THEN Value(k, IF k = "list" \/ its = <<>> THEN 2 ELSE 1, its, 0, <<>>)
                  ELSE NoObj],
      subj |-> 3, arg |-> v] :
        k \in {"list", "tuple"}, its \in Seqs({1, 2}, MaxLen), v \in {1, 2}}

InitSearch ==
    /\ \E s \in SearchSeeds :
        /\ heap = s.heap
        /\ hobj = [h \in Handles |-> IF h = 1 THEN s.subj ELSE IF h = 2 THEN s.arg ELSE Null]
    /\ err = FALSE
    /\ ub = FALSE
    /\ live = {1, 2}
    /\ last = [op |-> "start", arg |-> <<>>, ret |-> Null]

NextSearch ==
    \/ \E a, s \in Handles : StrFind(a, s)
    \/ \E a, s \in Handles : StrRfind(a, s)
    \/ \E a, s \in Handles : StrIndex(a, s)
    \/ \E a, s \in Handles : StrRindex(a, s)
    \/ \E a, v \in Handles : ListIndex(a, v)
    \/ \E a, v \in Handles : ListCount(a, v)
    \/ \E a, v \in Handles : ListRemove(a, v)
    \/ \E a, v \in Handles : TupleIndex(a, v)
    \/ \E a, v \in Handles : TupleCount(a, v)

SpecSearch == InitSearch /\ [][NextSearch]_vars

\* ----------------------------------------------------------------- C8
(* C8 as stated: the runtime's pending-error state is clear whenever a
   wrapper operation returns, so no error raised by one operation is still
   pending when the next operation starts. *)
C8_NoErrorPending == err = FALSE

\* ----------------------------------------------------------------- C9
\* The text nd occurs in the text hay at position p (from 0).
OccursAt(hay, nd, p) ==
    /\ p >= 0 /\ p + Len(nd) <= Len(hay)
    /\ \A j \in 1..Len(nd) : hay[p + j] = nd[j]

\* r is the lowest (highest) of the positions S, or -1 when there is none.
FirstOrMiss(r, S) == IF S = {} THEN r = -1 ELSE r \in S /\ \A p \in S : r <= p
LastOrMiss(r, S) == IF S = {} THEN r = -1 ELSE r \in S /\ \A p \in S : p <= r

(* C9 as stated: Str::find and Str::index return the lowest position of the
   substring, Str::rfind and Str::rindex the highest, List::index and
   Tuple::index the position of the first element equal to the value; when
   there is no match each returns -1, and List::count and Tuple::count return
   the number of equal elements, 0 when there is none. *)
C9_SearchResult ==
    last.op \in {"Str::find", "Str::rfind", "Str::index", "Str::rindex",
                 "List::index", "Tuple::index", "List::count", "Tuple::count"} =>
        LET o == hobj[last.arg[1]]
            v == hobj[last.arg[2]]
            r == last.ret
            InText == {p \in 0..MaxLen : OccursAt(heap[o].text, heap[v].text, p)}
            InSeq == {p \in 0..(Len(heap[o].items) - 1) : PyEq(heap, heap[o].items[p + 1], v)}
        IN CASE last.op \in {"Str::find", "Str::index"} -> FirstOrMiss(r, InText)
             [] last.op \in {"Str::rfind", "Str::rindex"} -> LastOrMiss(r, InText)
             [] last.op \in {"List::index", "Tuple::index"} -> FirstOrMiss(r, InSeq)
             [] OTHER -> r = Cardinality(InSeq)

\* ------------------------------------------------------------------ calls
\* The host program declares `Function f; Dict d; PyObj p;` (further handles
\* are PyObj): the static type of each handle, which is what overload and
\* template resolution see.
StaticType(h) == IF h = 1 THEN "Function" ELSE IF h = 2 THEN "Dict" ELSE "PyObj"

RECURSIVE DecrefAll(_, _)
DecrefAll(R, os) ==
    IF os = <<>> THEN R ELSE DecrefAll(Py_XDECREF(R, Head(os)), Tail(os))

\* The foreign callable f run on args and kwargs: PyObject_Call and
\* PyObject_CallObject.  What the callable does is its payload: 0 returns a
\* new integer, 1 raises, 2 returns its first argument (a new reference to
\* it) and raises when called with none.  A call made while an error is
\* pending comes back as failed.
CalleeFails(R, f, args) ==
    R.err \/ R.heap[f].val = 1 \/ (R.heap[f].val = 2 /\ args = <<>>)

PyObject_Call(R, f, args, kwargs) ==
    IF CalleeFails(R, f, args) THEN Ret(Raise(R), Null)
    ELSE IF R.heap[f].val = 2 THEN Ret(Py_XINCREF(R, args[1]), args[1])
    ELSE Ret(PyNew(R, "int", <<>>, Len(args), <<>>), Fresh(R.heap))

\* Py_DECREF(o): Py_XDECREF without the test for NULL.
Py_DECREF(R, o) == IF o = Null THEN [R EXCEPT !.ub = TRUE] ELSE Py_XDECREF(R, o)

\* `if (!result) { PyErr_Print(); return PyObj(); } return PyObj(result);`
\* PyErr_Print clears the error; the result is wrapped by PyObj(PyObject*).
CallResult(c, called) ==
    [rt |-> IF c.ret = Null THEN PyErr_Clear(c.rt) ELSE WrapRaw(c.rt, c.ret),
     ret |-> c.ret, seen |-> <<called>>, diag |-> FALSE, printed |-> c.ret = Null]

\* `if (!obj || !PyCallable_Check(obj))`: a message on std::cerr, PyObj().
NotCallable(R) ==
    [rt |-> R, ret |-> Null, seen |-> <<>>, diag |-> TRUE, printed |-> FALSE]

\* Function::call(args, kwargs) on a callable f; `seen` is what the callable
\* is called with.  The argument tuple holds one count of each argument for
\* the time of the call, py_kwargs one of the keyword dict.
Function_call(R, f, args, kwargs) ==
    IF f = Null \/ R.heap[f].kind # "func"
    THEN NotCallable(R)
    ELSE LET R1 == Py_XINCREF(IncrefAll(R, args), kwargs)
             c == PyObject_Call(R1, f, args, kwargs)
             R3 == Py_DECREF(DecrefAll(c.rt, args), kwargs)
         IN CallResult(Ret(R3, c.ret), [pos |-> args, kw |-> kwargs])

\* PyObj::operator()(args...) on a callable f: convert_to_pyobject takes a
\* count of each argument, which PyTuple_SetItem steals for the tuple.
PyObj_operator_call(R, f, args) ==
    IF f = Null \/ R.heap[f].kind # "func"
    THEN NotCallable(R)
    ELSE LET c == PyObject_Call(IncrefAll(R, args), f, args, Null)
         IN CallResult(Ret(DecrefAll(c.rt, args), c.ret), [pos |-> args, kw |-> Null])

\* `if constexpr (std::is_same_v<..., Dict>)`: the last argument is consumed
\* as the keyword bundle when its static type is Dict.
IsKwargs_Never(argv) == FALSE
IsKwargs(argv) == Len(argv) > 0 /\ argv[Len(argv)].ty = "Dict"

Front(s) == SubSeq(s, 1, Len(s) - 1)
ObjsIn(argv) == [i \in DOMAIN argv |-> argv[i].obj]

\* Function::operator()(args...): `Dict kwargs;` is a new empty dict (wrapped
\* by PyObj(PyObject*)), assigned the last argument when that is a Dict; vec
\* holds a copy of each positional argument; both are destroyed on return.
Function_operator_call(R, f, argv) ==
    LET K == Fresh(R.heap)
        R1 == WrapRaw(PyNew(R, "dict", <<>>, 0, <<>>), K)
        last_ == argv[Len(argv)].obj
        kwargs == IF IsKwargs(argv) THEN last_ ELSE K
        R2 == IF IsKwargs(argv) THEN Py_XINCREF(Py_XDECREF(R1, K), last_) ELSE R1
        vec == IF IsKwargs(argv) THEN ObjsIn(Front(argv)) ELSE ObjsIn(argv)
        c == Function_call(IncrefAll(R2, vec), f, vec, kwargs)
    IN [c EXCEPT !.rt = Py_XDECREF(DecrefAll(c.rt, vec), kwargs)]

Described(hs) == [i \in DOMAIN hs |-> [ty |-> StaticType(hs[i]), obj |-> hobj[hs[i]]]]

\* `f(args...);` with f the host program's Function: the returned handle is a
\* temporary, destroyed at the end of the statement.
Call(hs) ==
    /\ ~ub /\ 1 \in live /\ HasRoom(2)
    /\ \A i \in DOMAIN hs : hs[i] \in live /\ Allocated(heap, hobj[hs[i]])
    /\ LET c == Function_operator_call(Rt, hobj[1], Described(hs))
       IN /\ SetRt(Dtor(c.rt, c.ret))
          /\ Done("call", hs, c.seen)
    /\ UNCHANGED <<live, hobj>>

\* f wraps a function, d a dict that is empty or maps the text "a" to itself,
\* p that same dict (p == 2) or the text (p == 3).
CallSeed(p, es) ==
    [o \in Obj |->
        IF o = 1 THEN Value("func", 1, <<>>, 0, <<>>)
        ELSE IF o = 2 THEN Value("dict", 2 + One(p = 2), es, 0, <<>>)
        ELSE IF o = 3 /\ (es # <<>> \/ p = 3)
        THEN Value("str", 2 * Len(es) + One(p = 3), <<>>, 0, <<"a">>)
        ELSE NoObj]

InitCall ==
    /\ \E p \in {2, 3} : \E es \in {<<>>, << <<3, 3>> >>} :
        /\ heap = CallSeed(p, es)
        /\ hobj = [h \in Handles |-> IF h \in {1, 2} THEN h ELSE IF h = 3 THEN p ELSE Null]
    /\ err = FALSE
    /\ ub = FALSE
    /\ live = {1, 2, 3}
    /\ last = [op |-> "start", arg |-> <<>>, ret |-> Null]

NextCall ==
    \/ \E hs \in Seqs(Handles, MaxArgs) : Call(hs)
    \/ \E h \in Handles : Destroy(h)

SpecCall == InitCall /\ [][NextCall]_vars

\* ----------------------------------------------------------------- C10
\* What the callee of the last call was called with.
Seen == last.ret[1]
ArgObjs == [i \in DOMAIN last.arg |-> hobj[last.arg[i]]]
LastArg == last.arg[Len(last.arg)]
EmptyBundle(kw) ==
    /\ kw # Null /\ heap[kw].kind = "dict" /\ heap[kw].items = <<>>
    /\ \A i \in DOMAIN ArgObjs : ArgObjs[i] # kw

(* C10 as stated: Function::operator() consumes its final argument as the
   keyword bundle if and only if that argument is a value whose runtime kind
   is dict, however it is held; then exactly the preceding arguments are
   passed positionally in their order, and otherwise all arguments are passed
   positionally in their order with an empty keyword bundle. *)
C10_AsStated ==
    last.op = "call" /\ last.ret # <<>> =>
        IF last.arg # <<>> /\ Kind(heap, hobj[LastArg]) = "dict"
        THEN Seen.pos = Front(ArgObjs) /\ Seen.kw = hobj[LastArg]
        ELSE Seen.pos = ArgObjs /\ EmptyBundle(Seen.kw)

(* C10 as amended: Function::operator() consumes its final argument as the
   keyword bundle if and only if that argument is passed as a Dict view (its
   static type is Dict; here the view wraps a dict); then exactly the
   preceding arguments are passed positionally in their order.  Otherwise,
   also when the final argument is a dict held by a PyObj handle, all
   arguments are passed positionally in their order with an empty keyword
   bundle. *)
C10_KwargsByStaticType ==
    last.op = "call" /\ last.ret # <<>> =>
        IF last.arg # <<>> /\ StaticType(LastArg) = "Dict"
        THEN Seen.pos = Front(ArgObjs) /\ Seen.kw = hobj[LastArg]
        ELSE Seen.pos = ArgObjs /\ EmptyBundle(Seen.kw)

\* f(p, d) has run with p a PyObj handle of the dict that the Dict view d
\* wraps: the dict was passed positionally and as the keyword bundle.
C10_Witness ==
    /\ last.op = "call" /\ last.ret # <<>>
    /\ Len(last.arg) = 2
    /\ StaticType(last.arg[1]) = "PyObj" /\ StaticType(last.arg[2]) = "Dict"
    /\ hobj[last.arg[1]] = hobj[last.arg[2]]
    /\ Seen.pos = <<hobj[last.arg[1]]>>
    /\ Seen.kw = hobj[last.arg[2]]

\* ------------------------------------------------------------ invocation
\* The three ways to invoke: p(args...) through a PyObj handle,
\* f.call({args...}, kwargs) and f(args...) through a Function.
InvokePaths == {"PyObj::operator()", "Function::call", "Function::operator()"}

\* The handle a path invokes through: the Function f or the PyObj p.
Invoker(path) == IF path = "PyObj::operator()" THEN 3 ELSE 1

\* f.call({args...}, k): the vector holds a copy of each argument for the
\* time of the call; k = Null stands for the default argument `Dict()`, a new
\* empty dict in a temporary that is destroyed when the call returns.
Function_call_with(R, f, args, k) ==
    LET K == Fresh(R.heap)
        R1 == IF k = Null THEN WrapRaw(PyNew(R, "dict", <<>>, 0, <<>>), K) ELSE R
        kwargs == IF k = Null THEN K ELSE hobj[k]
        c == Function_call(IncrefAll(R1, args), f, args, kwargs)
        R2 == DecrefAll(c.rt, args)
    IN [c EXCEPT !.rt = IF k = Null THEN Dtor(R2, K) ELSE R2]

Invoked(R, path, f, hs, k) ==
    CASE path = "PyObj::operator()" -> PyObj_operator_call(R, f, ObjsOf(hs))
      [] path = "Function::call" -> Function_call_with(R, f, ObjsOf(hs), k)
      [] path = "Function::operator()" -> Function_operator_call(R, f, Described(hs))

\* One statement that invokes and drops the handle it gets back.
Invoke(path, hs, k) ==
    /\ ~ub /\ Invoker(path) \in live /\ HasRoom(2)
    /\ \A i \in DOMAIN hs : hs[i] \in live /\ Allocated(heap, hobj[hs[i]])
    /\ k # Null => path = "Function::call" /\ k \in live /\ StaticType(k) = "Dict"
    /\ LET c == Invoked(Rt, path, hobj[Invoker(path)], hs, k)
       IN /\ SetRt(Dtor(c.rt, c.ret))
          /\ Done(path, [args |-> hs, kw |-> k],
                  [ret |-> c.ret, seen |-> c.seen, diag |-> c.diag, printed |-> c.printed])
    /\ UNCHANGED <<live, hobj>>

\* What f and p wrap: a callable that returns a new value, raises or returns
\* its argument, a value that is not callable, or nothing.
Callees == {"new", "raises", "same", "int", "null"}

CalleeValue(c) ==
    CASE c = "new" -> Value("func", 2, <<>>, 0, <<>>)
      [] c = "raises" -> Value("func", 2, <<>>, 1, <<>>)
      [] c = "same" -> Value("func", 2, <<>>, 2, <<>>)
      [] c = "int" -> Value("int", 2, <<>>, 7, <<>>)
      [] c = "null" -> NoObj

\* d wraps a dict as Dict() and add leave it, or nothing (a Dict that was
\* moved from).
InvokeSeed(c, es, dnull) ==
    [o \in Obj |->
        IF o = 1 THEN CalleeValue(c)
        ELSE IF o = 2 /\ ~dnull THEN Value("dict", 2, es, 0, <<>>)
        ELSE IF o = 3 /\ es # <<>> /\ ~dnull THEN Value("str", 2, <<>>, 0, <<"a">>)
        ELSE NoObj]

InitInvoke ==
    /\ \E c \in Callees : \E es \in {<<>>, << <<3, 3>> >>} : \E dnull \in BOOLEAN :
        /\ heap = InvokeSeed(c, es, dnull)
        /\ hobj = [h \in Handles |->
                     IF h \in {1, 3} THEN (IF c = "null" THEN Null ELSE 1)
                     ELSE IF h = 2 /\ ~dnull THEN 2 ELSE Null]
    /\ err = FALSE
    /\ ub = FALSE
    /\ live = {1, 2, 3}
    /\ last = [op |-> "start", arg |-> <<>>, ret |-> Null]

NextInvoke ==
    /\ \/ \E path \in InvokePaths : \E hs \in Seqs(Handles, MaxArgs) :
            \E k \in {Null, 2} : Invoke(path, hs, k)
       \/ \E h \in Handles : Destroy(h)
    /\ CountsFollowed'

SpecInvoke == InitInvoke /\ [][NextInvoke]_vars

\* ----------------------------------------------------------------- C11
\* The values a statement hands to the call: the callable, the arguments and
\* the keyword dict.
HandedOver(path, a) ==
    {hobj[Invoker(path)]} \cup {hobj[a.args[i]] : i \in DOMAIN a.args}
        \cup (IF a.kw = Null THEN {} ELSE {hobj[a.kw]})

(* C11 as stated: invoking through PyObj::operator(), Function::call or
   Function::operator() never propagates a failure.  If the wrapped handle is
   null or not callable, nothing is invoked, a diagnostic is emitted and an
   empty handle is returned; if the callable raises, the pending failure is
   printed and cleared and an empty handle is returned; if it succeeds, the
   returned handle wraps the callable's result.  In all three outcomes the
   reference counts of the callable, of every argument and of the keyword
   mapping are the same after the statement as before it. *)
C11_InvocationContained ==
    [][last'.op \in InvokePaths =>
        LET r == last'.ret
            f == hobj[Invoker(last'.op)]
        IN /\ ~ub'
           /\ IF f = Null \/ heap[f].kind # "func"
              THEN r.seen = <<>> /\ r.diag /\ r.ret = Null
              ELSE /\ r.seen # <<>>
                   /\ IF CalleeFails(Rt, f, r.seen[1].pos)
                      THEN r.printed /\ ~err' /\ r.ret = Null
                      ELSE IF heap[f].val = 2 THEN r.ret = r.seen[1].pos[1]
                      ELSE r.ret \in Unused(heap) /\ heap'[r.ret].kind \in {"int", "freed"}
           /\ \A x \in HandedOver(last'.op, last'.arg) :
                Allocated(heap, x) => heap'[x].rc = heap[x].rc
    ]_vars

\* ---------------------------------------------------------------- mappings
\* PyDict_Contains(dict, key): 1, 0, or -1 with TypeError raised for an
\* unhashable key.
PyDict_Contains(R, d, k) ==
    IF Kind(R.heap, d) # "dict" \/ ~Hashable(R.heap, k) THEN Ret(Raise(R), -1)
    ELSE Ret(R, One(DictPos(R.heap, d, k) # 0))

\* PyDict_DelItem(dict, key): the dict gives up its counts of the entry's key
\* and value; KeyError raised when the key is absent.
PyDict_DelItem_Keeps(R, d, k) == Ret(R, 0)
PyDict_DelItem(R, d, k) ==
    IF Kind(R.heap, d) # "dict" \/ ~Hashable(R.heap, k) \/ DictPos(R.heap, d, k) = 0
    THEN Ret(Raise(R), -1)
    ELSE LET p == DictPos(R.heap, d, k)
         IN Ret(Release([R EXCEPT !.heap[d].items = Without(@, p)], R.heap[d].items[p]), 0)

\* Dict::contains(const PyObj& key).
Dict_contains(R, o, k) ==
    Reads(R, <<o, k>>,
        IF k = Null THEN Undefined(R)
        ELSE LET c == PyDict_Contains(R, o, k) IN Ret(c.rt, c.ret = 1))

\* Dict::len(): PyDict_Size.
Dict_len(R, o) == Reads(R, <<o>>, Ret(R, Size(R.heap, o)))

\* Dict::pop(const PyObj& key): the bound value is looked up (borrowed),
\* counted, its entry deleted, and returned through PyObj(PyObject*).
Dict_pop(R, o, k) ==
    Reads(R, <<o, k>>,
        IF k = Null THEN Undefined(R)
        ELSE LET value == PyDict_GetItem(R, o, k)
             IN IF value = Null THEN Ret(R, Null)
                ELSE Returned(PyDict_DelItem(Py_XINCREF(R, value), o, k).rt, value))

\* DictSetter(PyObject* d, const PyObj& k) : dict(d), key(k): the proxy keeps
\* the dict's address and a copy of the key handle.
DictSetter(R, d, k) == CopyCtor(R, k)

\* DictSetter::operator=(const PyObj& value).
DictSetter_assign(R, d, k, v) ==
    Reads(R, <<d, k, v>>,
        IF k = Null \/ v = Null THEN Undefined(R)
        ELSE LET s == PyDict_SetItem(R, d, k, v) IN Ret(s.rt, Null))

\* DictSetter::operator PyObj().
DictSetter_to_PyObj_Inserting(R, d, k) ==
    Ret(PyDict_SetItem(R, d, k, k).rt, PyDict_GetItem(PyDict_SetItem(R, d, k, k).rt, d, k))
DictSetter_to_PyObj(R, d, k) ==
    Reads(R, <<d, k>>,
        IF k = Null THEN Undefined(R)
        ELSE LET result == PyDict_GetItem(R, d, k)
             IN IF result = Null THEN Ret(R, Null)
                ELSE Returned(Py_XINCREF(R, result), result))

\* `d[k]` as a value, `d[k] = v` and `d[k]` left unused: Dict::operator[]
\* makes the proxy, the statement uses it, and the proxy's key is destroyed
\* at the end of the statement.
Subscript_read(R, d, k) ==
    LET r == DictSetter_to_PyObj(DictSetter(R, d, k), d, k)
    IN Ret(Dtor(r.rt, k), r.ret)

Subscript_write(R, d, k, v) ==
    LET r == DictSetter_assign(DictSetter(R, d, k), d, k, v)
    IN Ret(Dtor(r.rt, k), r.ret)

Subscript_unused(R, d, k) == Ret(Dtor(DictSetter(R, d, k), k), Null)

\* A call whose returned handle is a temporary, destroyed at the end of the
\* statement.
Discard(r, name, arg) ==
    /\ SetRt(IF r.rt.ub THEN r.rt ELSE Dtor(r.rt, r.ret))
    /\ UNCHANGED <<live, hobj>>
    /\ Done(name, arg, IF r.rt.ub THEN Null ELSE r.ret)

\* The statements of a program that holds the Dict d (handle 1) and two
\* integers.
StmtAdd(k, v) == ~ub /\ Effect(Dict_add(Rt, hobj[1], hobj[k], hobj[v]), "Dict::add", <<k, v>>)
StmtGet(k) == ~ub /\ Discard(Dict_get(Rt, hobj[1], hobj[k]), "Dict::get", <<k>>)
StmtContains(k) ==
    ~ub /\ Effect(Dict_contains(Rt, hobj[1], hobj[k]), "Dict::contains", <<k>>)
StmtLen == ~ub /\ Effect(Dict_len(Rt, hobj[1]), "Dict::len", <<>>)
StmtPop(k) == ~ub /\ Discard(Dict_pop(Rt, hobj[1], hobj[k]), "Dict::pop", <<k>>)
StmtSubscriptRead(k) ==
    ~ub /\ Discard(Subscript_read(Rt, hobj[1], hobj[k]), "d[k] read", <<k>>)
StmtSubscriptWrite(k, v) ==
    ~ub /\ Effect(Subscript_write(Rt, hobj[1], hobj[k], hobj[v]), "d[k] = v", <<k, v>>)
StmtSubscriptUnused(k) ==
    ~ub /\ Effect(Subscript_unused(Rt, hobj[1], hobj[k]), "d[k] unused", <<k>>)

\* Entries a dict of the integers a and b (values 2 and 3 of the heap) can
\* have: keys pairwise unequal.  b is another 1 or a 2.
Entries(bval) ==
    {es \in Seqs({2, 3} \X {2, 3}, MaxLen) :
        \A i, j \in DOMAIN es : i # j => es[i][1] # es[j][1] /\ (bval = 2 \/ es[i][1] = es[j][1])}

DictSeed(es, bval) ==
    [o \in Obj |->
        IF o = 1 THEN Value("dict", 2, es, 0, <<>>)
        ELSE IF o = 2 THEN Value("int", 1 + Occ(FlattenPairs(es), 2), <<>>, 1, <<>>)
        ELSE IF o = 3 THEN Value("int", 1 + Occ(FlattenPairs(es), 3), <<>>, bval, <<>>)
        ELSE NoObj]

InitDict ==
    /\ \E bval \in {1, 2} : \E es \in Entries(bval) : heap = DictSeed(es, bval)
    /\ hobj = [h \in Handles |-> IF h \in 1..3 THEN h ELSE Null]
    /\ err = FALSE
    /\ ub = FALSE
    /\ live = {1, 2, 3}
    /\ last = [op |-> "start", arg |-> <<>>, ret |-> Null]

\* The statements leak counts (see C1): counts are followed up to what the
\* seeds hold and MaxRc more.
LeaksFollowed == \A o \in Obj : heap[o].rc <= 2 * MaxLen + MaxRc

NextDict ==
    /\ \/ \E k, v \in {2, 3} : StmtAdd(k, v)
       \/ \E k \in {2, 3} : StmtGet(k)
       \/ \E k \in {2, 3} : StmtContains(k)
       \/ StmtLen
       \/ \E k \in {2, 3} : StmtPop(k)
       \/ \E k \in {2, 3} : StmtSubscriptRead(k)
       \/ \E k, v \in {2, 3} : StmtSubscriptWrite(k, v)
       \/ \E k \in {2, 3} : StmtSubscriptUnused(k)
    /\ LeaksFollowed'

SpecDict == InitDict /\ [][NextDict]_vars

\* ----------------------------------------------------------------- C12
\* The runtime after the step.
RtNext == [heap |-> heap', err |-> err', ub |-> ub']

\* The values the dict d binds to a key equal to k.
BoundTo(H, d, k) == {H[d].items[i][2] : i \in {j \in DOMAIN H[d].items : PyEq(H, H[d].items[j][1], k)}}

\* The bindings of d to keys unequal to k.
OtherBindings(H, d, k) == {e \in {H[d].items[i] : i \in DOMAIN H[d].items} : ~PyEq(H, e[1], k)}

(* C12: the writable subscript of a Dict commits nothing when the proxy is
   created: d[k] left unused changes nothing; d[k] converted to a value
   returns the value bound to k, or an empty handle when k is absent, and
   leaves the key set and all bindings unchanged (no key is inserted on a
   miss); assigning v to d[k] leaves the dict exactly as add(k, v) does, with
   k bound to v and no other binding changed. *)
C12_SubscriptProxy ==
    [][LET d == hobj[1]
           k == hobj[last'.arg[1]]
       IN /\ last'.op = "d[k] unused" => heap' = heap /\ err' = err /\ ~ub'
          /\ last'.op = "d[k] read" =>
                /\ ~ub'
                /\ IF BoundTo(heap, d, k) = {} THEN last'.ret = Null
                   ELSE last'.ret \in BoundTo(heap, d, k)
                /\ heap'[d].items = heap[d].items
          /\ last'.op = "d[k] = v" =>
                /\ ~ub'
                /\ heap'[d].items = Dict_add(Rt, d, k, hobj[last'.arg[2]]).rt.heap[d].items
                /\ err' = Dict_add(Rt, d, k, hobj[last'.arg[2]]).rt.err
                /\ BoundTo(heap', d, k) = {hobj[last'.arg[2]]}
                /\ OtherBindings(heap', d, k) = OtherBindings(heap, d, k)
    ]_vars

\* d[k] has been read on a dict that binds other keys and not k.
C12_Witness ==
    /\ last.op = "d[k] read" /\ last.ret = Null
    /\ heap[hobj[1]].items # <<>>
    /\ BoundTo(heap, hobj[1], hobj[last.arg[1]]) = {}

\* ----------------------------------------------------------------- C13
(* C13: for every Dict, hashable key k and value v: after add(k, v), get(k)
   returns a handle to a value equal to v and contains(k) is true, with every
   other key's binding unchanged; after pop(k) on a mapping containing k, pop
   returns the value that was bound, contains(k) is false and len() is one
   less; pop(k) on a mapping not containing k returns an empty handle and
   leaves the mapping unchanged. *)
C13_MappingRoundTrip ==
    [][LET d == hobj[1]
           k == hobj[last'.arg[1]]
       IN /\ last'.op = "Dict::add" =>
                /\ ~ub'
                /\ PyEq(heap', Dict_get(RtNext, d, k).ret, hobj[last'.arg[2]])
                /\ Dict_contains(RtNext, d, k).ret = TRUE
                /\ OtherBindings(heap', d, k) = OtherBindings(heap, d, k)
          /\ last'.op = "Dict::pop" =>
                /\ ~ub'
                /\ IF BoundTo(heap, d, k) # {}
                   THEN /\ {last'.ret} = BoundTo(heap, d, k)
                        /\ Dict_contains(RtNext, d, k).ret = FALSE
                        /\ Dict_len(RtNext, d).ret = Dict_len(Rt, d).ret - 1
                        /\ OtherBindings(heap', d, k) = OtherBindings(heap, d, k)
                   ELSE last'.ret = Null /\ heap'[d].items = heap[d].items
    ]_vars

\* pop(k) has removed one of two bindings and returned the value it bound.
C13_Witness ==
    /\ last.op = "Dict::pop" /\ last.ret # Null
    /\ Len(heap[hobj[1]].items) = 1
    /\ BoundTo(heap, hobj[1], hobj[last.arg[1]]) = {}

\* ------------------------------------------------------------ list growth
\* The statements of a program that holds a List in its first handle and the
\* integers 1 and 2 in its second and third: l.append(x), l.pop(i), l.pop().
StmtAppend(v) ==
    /\ ~ub /\ Size(heap, hobj[1]) <= MaxLen
    /\ Effect(List_append(Rt, hobj[1], hobj[v]), "List::append", <<v>>)

StmtPopAt(i) == ~ub /\ Discard(List_pop(Rt, hobj[1], i), "List::pop(i)", <<i>>)

\* `PyObj pop(int index = -1)` called with no argument.
StmtPopLast == ~ub /\ Discard(List_pop(Rt, hobj[1], -1), "List::pop()", <<>>)

ListSeeds == {Target(Value("list", 2, its, 0, <<>>), its) : its \in Seqs({1, 2}, MaxLen)}

InitList ==
    /\ heap \in ListSeeds
    /\ hobj = [h \in Handles |-> IF h = 1 THEN 3 ELSE IF h \in {2, 3} THEN h - 1 ELSE Null]
    /\ err = FALSE
    /\ ub = FALSE
    /\ live = {1, 2, 3}
    /\ last = [op |-> "start", arg |-> <<>>, ret |-> Null]

NextList ==
    /\ \/ \E v \in {2, 3} : StmtAppend(v)
       \/ \E i \in Indices : StmtPopAt(i)
       \/ StmtPopLast
    /\ LeaksFollowed'

SpecList == InitList /\ [][NextList]_vars

\* ----------------------------------------------------------------- C14
(* C14: for every List of length N: append(x) makes len() equal N+1 with
   element N equal to x and elements 0..N-1 unchanged; pop() with the default
   index removes and returns the last element and makes len() equal N-1;
   pop(i) with i outside [-N, N-1], and pop() on an empty list, returns an
   empty handle and leaves the list unchanged. *)
C14_AppendAndPop ==
    [][LET l == hobj[1]
           N == Len(heap[l].items)
       IN /\ last'.op = "List::append" =>
                /\ ~ub'
                /\ Len(heap'[l].items) = N + 1
                /\ heap'[l].items[N + 1] = hobj[last'.arg[1]]
                /\ \A j \in 1..N : heap'[l].items[j] = heap[l].items[j]
          /\ last'.op = "List::pop()" =>
                /\ ~ub'
                /\ IF N = 0 THEN last'.ret = Null /\ heap'[l].items = heap[l].items
                   ELSE /\ last'.ret = heap[l].items[N]
                        /\ heap'[l].items = SubSeq(heap[l].items, 1, N - 1)
          /\ (last'.op = "List::pop(i)" /\ (last'.arg[1] < 0 - N \/ last'.arg[1] > N - 1)) =>
                /\ ~ub'
                /\ last'.ret = Null
                /\ heap'[l].items = heap[l].items
    ]_vars

\* pop() has returned the last of MaxLen elements, leaving the others, which
\* differ from it.
C14_Witness ==
    /\ last.op = "List::pop()" /\ last.ret # Null
    /\ Len(heap[hobj[1]].items) = MaxLen - 1
    /\ \A j \in DOMAIN heap[hobj[1]].items : heap[hobj[1]].items[j] # last.ret

\* -------------------------------------------------------------------- sets
\* A set's elements are kept as a sequence in the order of their identities.
Members(H, s) == {H[s].items[i] : i \in DOMAIN H[s].items}

AsItems(S) ==
    CHOOSE s \in [1..Cardinality(S) -> S] :
        \A i, j \in 1..Cardinality(S) : i < j => s[i] < s[j]

SetOps == {"|", "&", "-", "^"}

Combined(op, X, Y) ==
    CASE op = "|" -> X \cup Y
      [] op = "&" -> X \cap Y
      [] op = "-" -> X \ Y
      [] op = "^" -> (X \ Y) \cup (Y \ X)

\* PyNumber_Or / PyNumber_And / PyNumber_Subtract / PyNumber_Xor on two sets:
\* a new set, which holds a count of each of its elements.
PyNumber_Binary(R, op, x, y) ==
    IF Kind(R.heap, x) # "set" \/ Kind(R.heap, y) # "set" THEN Ret(Raise(R), Null)
    ELSE LET its == AsItems(Combined(op, Members(R.heap, x), Members(R.heap, y)))
         IN Ret(IncrefAll(PyNew(R, "set", its, 0, <<>>), its), Fresh(R.heap))

\* set.update(other): the elements of other that the set has not are added
\* to it.
set_update(R, x, y) ==
    LET new == Members(R.heap, y) \ Members(R.heap, x)
    IN IncrefAll([R EXCEPT !.heap[x].items = AsItems(Members(R.heap, x) \cup new)],
                 AsItems(new))

\* Set::union_with, intersection, difference, symmetric_difference and the
\* operators |, &, -, ^: `return Set(result ? result : PySet_New(nullptr));`
Set_binary(R, op, x, y) ==
    Reads(R, <<x, y>>,
        LET r == PyNumber_Binary(R, op, x, y)
        IN IF r.ret # Null THEN Returned(r.rt, r.ret)
           ELSE Returned(PyNew(r.rt, "set", <<>>, 0, <<>>), Fresh(r.rt.heap)))

\* Set::operator|= calls the set's update method; operator&=, operator-= and
\* operator^= compute PyNumber_And / _Subtract / _Xor and, when that gave a
\* result, `Py_XDECREF(obj); obj = result;`.  `obj` is what the handle wraps
\* afterwards.
Set_compound(R, op, x, y) ==
    IF Dangling(R.heap, x) \/ Dangling(R.heap, y) THEN [rt |-> Undefined(R).rt, obj |-> x]
    ELSE IF op = "|" THEN [rt |-> set_update(R, x, y), obj |-> x]
    ELSE LET r == PyNumber_Binary(R, op, x, y)
         IN IF r.ret # Null THEN [rt |-> Py_XDECREF(r.rt, x), obj |-> r.ret]
            ELSE [rt |-> r.rt, obj |-> x]

\* `a op= b;`
SetCompound(op, a, b) ==
    /\ ~ub /\ IsA(a, "set") /\ IsA(b, "set") /\ HasRoom(1)
    /\ LET c == Set_compound(Rt, op, hobj[a], hobj[b])
       IN /\ SetRt(c.rt)
          /\ hobj' = [hobj EXCEPT ![a] = c.obj]
    /\ UNCHANGED live
    /\ Done("compound", <<op, a, b>>, Null)

\* `a op b;`: the Set it returns is a temporary.
SetBinary(op, a, b) ==
    /\ ~ub /\ IsA(a, "set") /\ IsA(b, "set") /\ HasRoom(1)
    /\ Discard(Set_binary(Rt, op, hobj[a], hobj[b]), "binary", <<op, a, b>>)

\* The host program holds the sets a and b, each as Set{...} leaves it, over
\* the integers 1 and 2, and in c a copy of the handle a.
SetSeed(X, Y) ==
    [o \in Obj |->
        IF o \in {1, 2}
        THEN IF o \notin X \cup Y THEN NoObj
             ELSE Value("int", One(o \in X) + One(o \in Y), <<>>, o, <<>>)
        ELSE IF o = 3 THEN Value("set", 3, AsItems(X), 0, <<>>)
        ELSE IF o = 4 THEN Value("set", 2, AsItems(Y), 0, <<>>)
        ELSE NoObj]

InitSet ==
    /\ \E X, Y \in SUBSET {1, 2} : heap = SetSeed(X, Y)
    /\ hobj = [h \in Handles |-> IF h = 1 THEN 3 ELSE IF h = 2 THEN 4 ELSE IF h = 3 THEN 3 ELSE Null]
    /\ err = FALSE
    /\ ub = FALSE
    /\ live = {1, 2, 3}
    /\ last = [op |-> "start", arg |-> <<>>, ret |-> Null]

NextSet ==
    /\ \/ \E op \in SetOps : \E a, b \in Handles : SetCompound(op, a, b)
       \/ \E op \in SetOps : \E a, b \in Handles : SetBinary(op, a, b)
    /\ LeaksFollowed'

SpecSet == InitSet /\ [][NextSet]_vars

\* ----------------------------------------------------------------- C15
(* C15 as stated: the Set compound operators |=, &=, -= and ^= mutate the
   underlying foreign set in place: after a op= b, the foreign set that a
   wrapped before the operation (and so every other handle that wraps it) has
   the updated membership (union, intersection, difference, symmetric
   difference), a still wraps that same foreign set, and b is unchanged;
   whereas the non-compound forms return a new Set with that membership and
   leave both operands' membership unchanged. *)
C15_CompoundInPlace ==
    [][LET op == last'.arg[1]
           A == hobj[last'.arg[2]]
           B == hobj[last'.arg[3]]
           expected == Combined(op, Members(heap, A), Members(heap, B))
       IN /\ last'.op = "compound" =>
                /\ ~ub'
                /\ hobj'[last'.arg[2]] = A
                /\ heap'[A].kind = "set" /\ Members(heap', A) = expected
                /\ \A h \in live : hobj[h] = A => hobj'[h] = A
                /\ A # B => Members(heap', B) = Members(heap, B)
          /\ last'.op = "binary" =>
                /\ ~ub'
                /\ last'.ret \in Unused(heap)
                /\ heap'[last'.ret].kind = "set" /\ Members(heap', last'.ret) = expected
                /\ Members(heap', A) = Members(heap, A)
                /\ Members(heap', B) = Members(heap, B)
    ]_vars

\* ----------------------------------------------------------------- fstring
\* Texts are sequences of characters.  `os << value` of an int writes its
\* decimal digits, of a text the text.
Digit(d) == <<"0", "1", "2", "3", "4", "5", "6", "7", "8", "9">>[d + 1]

RECURSIVE Decimal(_)
Decimal(n) == IF n < 10 THEN <<Digit(n)>> ELSE Decimal(n \div 10) \o <<Digit(n % 10)>>

Streamed(v) == IF v.isInt THEN Decimal(v.n) ELSE v.t

IntValue(n) == [isInt |-> TRUE, n |-> n, t |-> <<>>]
TextValue(t) == [isInt |-> FALSE, n |-> 0, t |-> t]

\* An argument of fstring: a plain value, or the pair farg(name, value)
\* returns, whose second member is the streamed value.
PlainArg(v) == [named |-> FALSE, name |-> <<>>, value |-> v]
farg(name, v) == [named |-> TRUE, name |-> name, value |-> TextValue(Streamed(v))]

\* process_arg over the arguments in order: positional_args.push_back of the
\* streamed plain values.
RECURSIVE positional_args_All(_)
positional_args_All(args) ==
    IF args = <<>> THEN <<>>
    ELSE <<Streamed(Head(args).value)>> \o positional_args_All(Tail(args))

RECURSIVE positional_args(_)
positional_args(args) ==
    IF args = <<>> THEN <<>>
    ELSE IF Head(args).named THEN positional_args(Tail(args))
    ELSE <<Streamed(Head(args).value)>> \o positional_args(Tail(args))

\* named_args.emplace(first, second) of the pairs in order: a name that is
\* already in the map keeps its value.  The map as the pairs it holds.
RECURSIVE named_args(_)
named_args(args) ==
    IF args = <<>> THEN <<>>
    ELSE IF ~Head(args).named THEN named_args(Tail(args))
    ELSE <<Head(args)>> \o named_args(Tail(args))

\* named_args.find(key): the first pair of that name, 0 for end().
Find_named_Never(N, key) == 0
Find_named(N, key) ==
    IF \E p \in DOMAIN N : N[p].name = key
    THEN CHOOSE p \in DOMAIN N : N[p].name = key /\ \A q \in DOMAIN N : N[q].name = key => p <= q
    ELSE 0

\* format.find(c, from) with positions counted from 1: 0 for npos.
Find_char(f, c, from) ==
    IF \E j \in from..Len(f) : f[j] = c
    THEN CHOOSE j \in from..Len(f) : f[j] = c /\ \A q \in from..Len(f) : f[q] = c => j <= q
    ELSE 0

\* `i + 1 < format.size() && format[i + 1] == c`: a doubled brace.
Doubled_Never(f, i, c) == FALSE
Doubled(f, i, c) == i + 1 <= Len(f) /\ f[i + 1] = c

\* What one round of the loop appends to output, with the position it read.
Emit(i, text) == [at |-> i, text |-> text]

\* The loop `for (size_t i = 0; i < format.size(); ++i)` from position i
\* (counted from 1) with position_index pi: the sequence of what the rounds
\* append to output.
RECURSIVE fstring_loop(_, _, _, _, _)
fstring_loop(f, i, pi, P, N) ==
    IF i > Len(f) THEN <<>>
    ELSE IF f[i] = "{"
    THEN IF Doubled(f, i, "{")
         THEN <<Emit(i, <<"{">>)>> \o fstring_loop(f, i + 2, pi, P, N)
         ELSE LET j == Find_char(f, "}", i + 1)
                  key == SubSeq(f, i + 1, j - 1)
              IN IF j = 0
                 THEN <<Emit(i, <<"{">>)>> \o fstring_loop(f, i + 1, pi, P, N)
                 ELSE IF key = <<>>
                 THEN IF pi < Len(P)
                      THEN <<Emit(i, P[pi + 1])>> \o fstring_loop(f, j + 1, pi + 1, P, N)
                      ELSE <<Emit(i, <<"{", "}">>)>> \o fstring_loop(f, j + 1, pi, P, N)
                 ELSE IF Find_named(N, key) # 0
                      THEN <<Emit(i, N[Find_named(N, key)].value.t)>>
                               \o fstring_loop(f, j + 1, pi, P, N)
                      ELSE <<Emit(i, <<"{">> \o key \o <<"}">>)>>
                               \o fstring_loop(f, j + 1, pi, P, N)
    ELSE IF f[i] = "}"
    THEN IF Doubled(f, i, "}")
         THEN <<Emit(i, <<"}">>)>> \o fstring_loop(f, i + 2, pi, P, N)
         ELSE <<Emit(i, <<"}">>)>> \o fstring_loop(f, i + 1, pi, P, N)
    ELSE <<Emit(i, <<f[i]>>)>> \o fstring_loop(f, i + 1, pi, P, N)

RECURSIVE Output(_)
Output(rounds) == IF rounds = <<>> THEN <<>> ELSE Head(rounds).text \o Output(Tail(rounds))

\* fstring(format, args...): the output, and the rounds that built it.
fstring(format, args) ==
    LET rounds == fstring_loop(format, 1, 0, positional_args(args), named_args(args))
    IN [output |-> Output(rounds), rounds |-> rounds]

\* Templates: every text of up to MaxFormat characters over a brace pair and
\* a letter, and the templates of the documented examples; arguments: up to
\* MaxFArgs of a few plain and named ones.
FormatChars == {"{", "}", "n"}

Examples ==
    {<<"{", "}", " ", "a", "n", "d", " ", "{", "n", "a", "m", "e", "}">>,
     <<"{", "{", "l", "i", "t", "e", "r", "a", "l", "}", "}">>,
     <<"{", "m", "i", "s", "s", "i", "n", "g", "}">>,
     <<"{", "}", " ", "{", "}">>}

Formats == Seqs(FormatChars, MaxFormat) \cup Examples

ArgPool ==
    {PlainArg(IntValue(1)), PlainArg(IntValue(23)),
     farg(<<"n">>, IntValue(45)), farg(<<"n">>, TextValue(<<"y">>)),
     farg(<<"n", "a", "m", "e">>, TextValue(<<"x">>))}

InitFormat ==
    /\ \E f \in Formats : \E args \in Seqs(ArgPool, MaxFArgs) :
            last = [op |-> "input", arg |-> [format |-> f, args |-> args], ret |-> Null]
    /\ heap = [o \in Obj |-> NoObj]
    /\ err = FALSE
    /\ ub = FALSE
    /\ live = {}
    /\ hobj = [h \in Handles |-> Null]

\* `std::string s = fstring(format, args...);`
Format ==
    /\ last.op = "input"
    /\ last' = [op |-> "fstring", arg |-> last.arg,
                ret |-> fstring(last.arg.format, last.arg.args)]
    /\ UNCHANGED <<heap, err, ub, live, hobj>>

NextFormat == Format

SpecFormat == InitFormat /\ [][NextFormat]_vars

\* ----------------------------------------------------------- C16 to C18
\* The template read left to right, as the rules of the formatter divide it:
\* `{{` and `}}`, a `{` with no `}` after it, a placeholder from a `{` to the
\* next `}` (positional when nothing is between them, named otherwise), and
\* single characters.
Piece(i, kind, name) == [at |-> i, kind |-> kind, name |-> name]

RECURSIVE Pieces(_, _)
Pieces(f, i) ==
    IF i > Len(f) THEN <<>>
    ELSE LET two == IF i < Len(f) THEN <<f[i], f[i + 1]>> ELSE <<f[i]>>
             closes == {j \in (i + 1)..Len(f) : f[j] = "}"}
             close == CHOOSE j \in closes : \A q \in closes : j <= q
         IN CASE two = <<"{", "{">> -> <<Piece(i, "{{", <<>>)>> \o Pieces(f, i + 2)
              [] two = <<"}", "}">> -> <<Piece(i, "}}", <<>>)>> \o Pieces(f, i + 2)
              [] f[i] = "{" /\ two # <<"{", "{">> /\ closes = {} ->
                    <<Piece(i, "unterminated", <<>>)>> \o Pieces(f, i + 1)
              [] f[i] = "{" /\ two # <<"{", "{">> /\ closes # {} ->
                    <<Piece(i, IF close = i + 1 THEN "positional" ELSE "named",
                            SubSeq(f, i + 1, close - 1))>> \o Pieces(f, close + 1)
              [] OTHER -> <<Piece(i, IF f[i] = "}" THEN "}" ELSE "character", <<f[i]>>)>>
                              \o Pieces(f, i + 1)

\* What the call wrote for the piece at position i.
Written(rounds, i) == {rounds[r].text : r \in {q \in DOMAIN rounds : rounds[q].at = i}}

\* The plain arguments and the named pairs of an argument list.
PlainOf(args) == SelectSeq(args, LAMBDA a : ~a.named)
NamedOf(args) == {args[i] : i \in {j \in DOMAIN args : args[j].named}}

\* How many positional placeholders the pieces up to the p-th hold.
Ordinal(ps, p) == Cardinality({q \in 1..p : ps[q].kind = "positional"})

Formatted == last.op = "fstring"
Template == last.arg.format
Supplied == last.arg.args

(* C16: in fstring, positional arguments are consumed strictly left to
   right: the k-th `{}` placeholder of the template (counting only `{}`
   placeholders, not named ones and not escaped braces) is replaced by the
   text of the k-th plain argument when at least k plain arguments were
   supplied, and is emitted as the literal two characters `{}` otherwise;
   named pairs never count as positional arguments and `{name}` placeholders
   never consume one. *)
C16_PositionalInOrder ==
    Formatted =>
        LET ps == Pieces(Template, 1)
        IN \A p \in DOMAIN ps : ps[p].kind = "positional" =>
              Written(last.ret.rounds, ps[p].at) =
                 {IF Ordinal(ps, p) <= Len(PlainOf(Supplied))
                  THEN Streamed(PlainOf(Supplied)[Ordinal(ps, p)].value)
                  ELSE <<"{", "}">>}

\* fstring("{} {}", 1) has returned "1 {}".
C16_Witness ==
    /\ Formatted
    /\ Template = <<"{", "}", " ", "{", "}">>
    /\ Supplied = <<PlainArg(IntValue(1))>>
    /\ last.ret.output = <<"1", " ", "{", "}">>

(* C17: in fstring, every `{name}` placeholder with a non-empty name is
   replaced by the value of the named argument called name when one was
   supplied (every occurrence of the name, wherever it stands among the
   positional placeholders), and is emitted unchanged as `{name}` when no
   such named argument was supplied. *)
C17_NamedLookup ==
    Formatted =>
        LET ps == Pieces(Template, 1)
        IN \A p \in DOMAIN ps : ps[p].kind = "named" =>
              LET called == {a \in NamedOf(Supplied) : a.name = ps[p].name}
              IN IF called = {}
                 THEN Written(last.ret.rounds, ps[p].at) = {<<"{">> \o ps[p].name \o <<"}">>}
                 ELSE \E a \in called : Written(last.ret.rounds, ps[p].at) = {a.value.t}

\* fstring("{} and {name}", 1, farg("name", "x")) has returned "1 and x".
C17_Witness ==
    /\ Formatted
    /\ Template = <<"{", "}", " ", "a", "n", "d", " ", "{", "n", "a", "m", "e", "}">>
    /\ Supplied = <<PlainArg(IntValue(1)), farg(<<"n", "a", "m", "e">>, TextValue(<<"x">>))>>
    /\ last.ret.output = <<"1", " ", "a", "n", "d", " ", "x">>

(* C18: fstring handles literal braces as follows for every template and
   argument list: each `{{` the scan meets emits a single `{` and each `}}`
   a single `}` with no placeholder lookup; a `{` that has no `}` anywhere
   after it is emitted as `{` and scanning continues with the next character;
   every character met that is not `{` or `}` is copied to the output
   unchanged and in order, so a template containing no braces is returned
   identical to the input whatever arguments are supplied. *)
C18_LiteralBraces ==
    Formatted =>
        LET ps == Pieces(Template, 1)
            rounds == last.ret.rounds
        IN /\ \A p \in DOMAIN ps :
                /\ ps[p].kind = "{{" => Written(rounds, ps[p].at) = {<<"{">>}
                /\ ps[p].kind = "}}" => Written(rounds, ps[p].at) = {<<"}">>}
                /\ ps[p].kind = "unterminated" =>
                      /\ Written(rounds, ps[p].at) = {<<"{">>}
                      /\ ps[p].at < Len(Template) => Written(rounds, ps[p].at + 1) # {}
                /\ ps[p].kind = "character" => Written(rounds, ps[p].at) = {ps[p].name}
           /\ \A r \in DOMAIN rounds : r > 1 => rounds[r - 1].at < rounds[r].at
           /\ (\A i \in DOMAIN Template : Template[i] \notin {"{", "}"}) =>
                 last.ret.output = Template

\* fstring("{{literal}}") has returned "{literal}".
C18_Witness ==
    /\ Formatted
    /\ Template = <<"{", "{", "l", "i", "t", "e", "r", "a", "l", "}", "}">>
    /\ last.ret.output = <<"{", "l", "i", "t", "e", "r", "a", "l", "}">>

\* ------------------------------------------------------------- pretty form
\* A foreign value as the tree of what it holds: the kind, the children (of a
\* dict: key, value, key, value, ... in iteration order; of a set: in
\* iteration order), the number of an int or bool, the characters of a text.
Node(k, its, v, t) == [kind |-> k, items |-> its, val |-> v, text |-> t]

NoValue == Node("null", <<>>, 0, <<>>)

\* `for (int j = 0; j < n; ++j) os << ' ';`
Spaces(n) == [j \in 1..n |-> " "]

\* `pretty_print(os, PyObj(item), indent + 4)`: the indent of a child.
Nested_Two(indent) == indent + 2
Nested(indent) == indent + 4

RECURSIVE pretty_print(_, _)
RECURSIVE pretty_items(_, _, _)
RECURSIVE pretty_entries(_, _, _, _)
RECURSIVE pretty_members(_, _, _, _)

\* The loop over a list or a tuple from index i: indent, child, a comma
\* unless it is the last, a newline.
pretty_items(items, i, indent) ==
    IF i >= Len(items) THEN <<>>
    ELSE Spaces(Nested(indent)) \o pretty_print(items[i + 1], Nested(indent))
            \o (IF i # Len(items) - 1 THEN <<",">> ELSE <<>>) \o <<"\n">>
            \o pretty_items(items, i + 1, indent)

\* The PyDict_Next loop from the i-th entry: a comma and a newline unless it
\* is the first, indent, key, a colon and a space, value.
pretty_entries(items, i, first, indent) ==
    IF 2 * i >= Len(items) THEN <<>>
    ELSE (IF ~first THEN <<",", "\n">> ELSE <<>>)
            \o Spaces(Nested(indent)) \o pretty_print(items[2 * i + 1], Nested(indent))
            \o <<":", " ">> \o pretty_print(items[2 * i + 2], Nested(indent))
            \o pretty_entries(items, i + 1, FALSE, indent)

\* The PyIter_Next loop over a set from its i-th member.
pretty_members(items, i, first, indent) ==
    IF i >= Len(items) THEN <<>>
    ELSE (IF ~first THEN <<",", "\n">> ELSE <<>>)
            \o Spaces(Nested(indent)) \o pretty_print(items[i + 1], Nested(indent))
            \o pretty_members(items, i + 1, FALSE, indent)

\* detail::pretty_print(os, obj, indent): what it writes to os.
pretty_print(v, indent) ==
    CASE v.kind = "null" -> <<"N", "o", "n", "e">>
      [] v.kind = "bool" ->
            IF v.val = 1 THEN <<"T", "r", "u", "e">> ELSE <<"F", "a", "l", "s", "e">>
      [] v.kind = "int" -> Decimal(v.val)
      [] v.kind = "str" -> <<"\"">> \o v.text \o <<"\"">>
      [] v.kind = "list" ->
            IF Len(v.items) = 0 THEN <<"[", "]">>
            ELSE <<"[", "\n">> \o pretty_items(v.items, 0, indent) \o Spaces(indent) \o <<"]">>
      [] v.kind = "tuple" ->
            IF Len(v.items) = 0 THEN <<"(", ")">>
            ELSE <<"(", "\n">> \o pretty_items(v.items, 0, indent) \o Spaces(indent) \o <<")">>
      [] v.kind = "dict" ->
            IF Len(v.items) = 0 THEN <<"{", "}">>
            ELSE <<"{", "\n">> \o pretty_entries(v.items, 0, TRUE, indent)
                    \o <<"\n">> \o Spaces(indent) \o <<"}">>
      [] v.kind = "set" ->
            <<"{", "\n">> \o pretty_members(v.items, 0, TRUE, indent)
                \o <<"\n">> \o Spaces(indent) \o <<"}">>

\* The values rendered: scalars and empty containers; containers of up to
\* MaxWidth of those; containers of one such container.  Members of a set
\* and keys of a dict are hashable and differ from each other.
Scalars == {Node("int", <<>>, 1, <<>>), Node("str", <<>>, 0, <<"a">>), Node("bool", <<>>, 1, <<>>)}
Containers == {"list", "tuple", "dict", "set"}
Empties == {Node(k, <<>>, 0, <<>>) : k \in Containers}

Distinct(s) == \A i, j \in DOMAIN s : i # j => s[i] # s[j]

RECURSIVE Interleaved(_, _)
Interleaved(ks, vs) ==
    IF ks = <<>> THEN <<>> ELSE <<Head(ks), Head(vs)>> \o Interleaved(Tail(ks), Tail(vs))

Holding_(C, w) ==
    {Node(k, its, 0, <<>>) : k \in {"list", "tuple"}, its \in Seqs(C, w) \ {<<>>}}
    \cup {Node("set", its, 0, <<>>) :
            its \in {s \in Seqs(Scalars \cup {Node("tuple", <<>>, 0, <<>>)}, w) \ {<<>>} : Distinct(s)}}
    \cup UNION {{Node("dict", Interleaved(ks, vs), 0, <<>>) : vs \in [1..Len(ks) -> C]} :
                  ks \in {s \in Seqs(Scalars, w) \ {<<>>} : Distinct(s)}}

Flat == Holding_(Scalars \cup Empties, MaxWidth)

Rendered == {NoValue} \cup Scalars \cup Empties \cup Flat \cup Holding_(Flat, 1)

InitPretty ==
    /\ \E v \in Rendered : \E indent \in 0..MaxIndent :
            last = [op |-> "input", arg |-> [value |-> v, indent |-> indent], ret |-> Null]
    /\ heap = [o \in Obj |-> NoObj]
    /\ err = FALSE
    /\ ub = FALSE
    /\ live = {}
    /\ hobj = [h \in Handles |-> Null]

\* `PyObj::pretty_print(os, obj, indent);`
PrettyPrint ==
    /\ last.op = "input"
    /\ last' = [op |-> "pretty_print", arg |-> last.arg,
                ret |-> pretty_print(last.arg.value, last.arg.indent)]
    /\ UNCHANGED <<heap, err, ub, live, hobj>>

NextPretty == PrettyPrint

SpecPretty == InitPretty /\ [][NextPretty]_vars

\* ----------------------------------------------------------- C19, C20
\* The containers of a rendering: the value itself at depth 0 and every
\* container it holds, with the depth it is nested at.
RECURSIVE Nest(_, _)
Nest(v, k) ==
    (IF v.kind \in Containers THEN {[node |-> v, depth |-> k]} ELSE {})
        \cup UNION {Nest(v.items[i], k + 1) : i \in DOMAIN v.items}

Open(k) == CASE k = "list" -> "[" [] k = "tuple" -> "(" [] OTHER -> "{"
Close(k) == CASE k = "list" -> "]" [] k = "tuple" -> ")" [] OTHER -> "}"

\* What a container nested at depth k of the rendering was written as.
TextOf(n) ==
    IF n.depth = 0 THEN last.ret
    ELSE pretty_print(n.node, last.arg.indent + 4 * n.depth)

(* C19 as stated: the pretty form renders every empty container inline with
   no newline: an empty list as `[]`, an empty tuple as `()`, an empty
   mapping as `{}` and an empty set as `{}`, at any nesting depth and any
   starting indent. *)
C19_EmptyInline ==
    last.op = "pretty_print" =>
        \A n \in Nest(last.arg.value, 0) :
            n.node.items = <<>> => TextOf(n) = <<Open(n.node.kind), Close(n.node.kind)>>

\* The children of a container, each with what stands before it on its line.
Pad(n) == [j \in 1..n |-> " "]

ChildLine(v, i, d) ==
    IF v.kind = "dict"
    THEN Pad(d) \o pretty_print(v.items[2 * i - 1], d) \o <<":", " ">>
            \o pretty_print(v.items[2 * i], d)
    ELSE Pad(d) \o pretty_print(v.items[i], d)

NumChildren(v) == IF v.kind = "dict" THEN Len(v.items) \div 2 ELSE Len(v.items)

RECURSIVE Joined(_, _, _)
Joined(v, i, d) ==
    IF i = NumChildren(v) THEN ChildLine(v, i, d)
    ELSE ChildLine(v, i, d) \o <<",", "\n">> \o Joined(v, i + 1, d)

(* C20: every non-empty list, tuple, mapping or set rendered by the pretty
   form at indent d is written as the opening delimiter, a newline, then each
   child on its own line prefixed by exactly d+4 spaces and rendered at
   indent d+4, consecutive children separated by a comma followed by a
   newline and no comma after the last child, then a newline, exactly d
   spaces and the closing delimiter; mapping children render as `key: value`;
   a container nested at depth k of a rendering started at indent 0 has its
   children prefixed by 4*(k+1) spaces. *)
C20_NestedLayout ==
    last.op = "pretty_print" =>
        /\ \A n \in Nest(last.arg.value, 0) :
              n.node.items # <<>> =>
                  LET d == last.arg.indent + 4 * n.depth
                  IN TextOf(n) = <<Open(n.node.kind), "\n">> \o Joined(n.node, 1, d + 4)
                                    \o <<"\n">> \o Pad(d) \o <<Close(n.node.kind)>>
        /\ (last.arg.value = Node("list", <<Node("int", <<>>, 1, <<>>)>>, 0, <<>>)
                /\ last.arg.indent = 0)
              => last.ret = <<"[", "\n", " ", " ", " ", " ", "1", "\n", "]">>

\* The list [[1]] has been rendered from indent 0: its child stands behind 4
\* spaces and the child's child behind 8.
C20_Witness ==
    /\ last.op = "pretty_print" /\ last.arg.indent = 0
    /\ last.arg.value.kind = "list" /\ Len(last.arg.value.items) = 1
    /\ last.arg.value.items[1] = Node("list", <<Node("int", <<>>, 1, <<>>)>>, 0, <<>>)
    /\ last.ret = <<"[", "\n">> \o Pad(4) \o <<"[", "\n">> \o Pad(8) \o <<"1", "\n">>
                      \o Pad(4) \o <<"]", "\n", "]">>

\* ---------------------------------------------------------- canonical form
\* The runtime's representation of a text: in single quotes, unless the text
\* holds a single quote and no double quote; a backslash, the quote in use
\* and a newline are written as escapes.
Holds(t, c) == \E i \in DOMAIN t : t[i] = c

QuoteOf(t) == IF Holds(t, "'") /\ ~Holds(t, "\"") THEN "\"" ELSE "'"

Escaped_Raw(c, q) == <<c>>
Escaped(c, q) ==
    CASE c = "\\" -> <<"\\", "\\">>
      [] c = "\n" -> <<"\\", "n">>
      [] c = q -> <<"\\", c>>
      [] OTHER -> <<c>>

RECURSIVE EscapedAll(_, _)
EscapedAll(t, q) == IF t = <<>> THEN <<>> ELSE Escaped(Head(t), q) \o EscapedAll(Tail(t), q)

unicode_repr(t) == <<QuoteOf(t)>> \o EscapedAll(t, QuoteOf(t)) \o <<QuoteOf(t)>>

RECURSIVE PyObject_Repr(_)
RECURSIVE repr_items(_, _)
RECURSIVE repr_entries(_, _)

\* The elements from the i-th on, separated by a comma and a space.
repr_items(items, i) ==
    IF i > Len(items) THEN <<>>
    ELSE (IF i > 1 THEN <<",", " ">> ELSE <<>>) \o PyObject_Repr(items[i]) \o repr_items(items, i + 1)

repr_entries(items, i) ==
    IF 2 * i > Len(items) THEN <<>>
    ELSE (IF i > 1 THEN <<",", " ">> ELSE <<>>)
            \o PyObject_Repr(items[2 * i - 1]) \o <<":", " ">> \o PyObject_Repr(items[2 * i])
            \o repr_entries(items, i + 1)

\* PyObject_Repr of a value of the runtime's own types.
PyObject_Repr(v) ==
    CASE v.kind = "bool" ->
            IF v.val = 1 THEN <<"T", "r", "u", "e">> ELSE <<"F", "a", "l", "s", "e">>
      [] v.kind = "int" -> Decimal(v.val)
      [] v.kind = "str" -> unicode_repr(v.text)
      [] v.kind = "list" -> <<"[">> \o repr_items(v.items, 1) \o <<"]">>
      [] v.kind = "tuple" ->
            <<"(">> \o repr_items(v.items, 1)
                \o (IF Len(v.items) = 1 THEN <<",">> ELSE <<>>) \o <<")">>
      [] v.kind = "dict" -> <<"{">> \o repr_entries(v.items, 1) \o <<"}">>
      [] v.kind = "set" ->
            IF v.items = <<>> THEN <<"s", "e", "t", "(", ")">>
            ELSE <<"{">> \o repr_items(v.items, 1) \o <<"}">>

\* PyObject_Str: a text is itself, every other of these types is its repr.
PyObject_Str(v) == IF v.kind = "str" THEN v.text ELSE PyObject_Repr(v)

\* operator<<(std::ostream&, const PyObj&): what it writes.
operator_out(v) ==
    IF v.kind = "null" THEN <<"N", "o", "n", "e">> ELSE PyObject_Repr(v)

\* PyObj::str()
PyObj_str(v) ==
    IF v.kind = "null" THEN <<"N", "o", "n", "e">> ELSE PyObject_Str(v)

\* The values represented: the integer 42, a boolean, every text of up to
\* MaxText characters over letters, both quotes, the backslash and the
\* newline, and containers of up to MaxWidth of a few of them.
TextChars == {"a", "b", "'", "\"", "\\", "\n"}
Texts == {Node("str", <<>>, 0, t) : t \in Seqs(TextChars, MaxText)}
FortyTwo == Node("int", <<>>, 42, <<>>)
TextAb == Node("str", <<>>, 0, <<"a", "b">>)
Members_ == {FortyTwo, TextAb, Node("str", <<>>, 0, <<"\n">>), Node("str", <<>>, 0, <<"'">>)}

Represented ==
    {NoValue, FortyTwo, Node("bool", <<>>, 1, <<>>)} \cup Texts
        \cup {Node(k, its, 0, <<>>) : k \in {"list", "tuple"}, its \in Seqs(Members_, MaxWidth)}
        \cup {Node("set", its, 0, <<>>) : its \in {s \in Seqs(Members_, MaxWidth) : Distinct(s)}}
        \cup {Node("dict", <<>>, 0, <<>>)}
        \cup {Node("dict", <<k, c>>, 0, <<>>) :
                k \in Members_, c \in {Node("list", <<x>>, 0, <<>>) : x \in Members_}}

InitCanon ==
    /\ \E v \in Represented : last = [op |-> "input", arg |-> v, ret |-> Null]
    /\ heap = [o \in Obj |-> NoObj]
    /\ err = FALSE
    /\ ub = FALSE
    /\ live = {}
    /\ hobj = [h \in Handles |-> Null]

\* `os << obj;`
StreamOut ==
    /\ last.op = "input"
    /\ last' = [op |-> "operator<<", arg |-> last.arg, ret |-> operator_out(last.arg)]
    /\ UNCHANGED <<heap, err, ub, live, hobj>>

\* `obj.str();`
StrOf ==
    /\ last.op = "input"
    /\ last' = [op |-> "str", arg |-> last.arg, ret |-> PyObj_str(last.arg)]
    /\ UNCHANGED <<heap, err, ub, live, hobj>>

NextCanon == StreamOut \/ StrOf

SpecCanon == InitCanon /\ [][NextCanon]_vars

\* ----------------------------------------------------------------- C21
\* The number of lines of a written text.
Lines(s) == Cardinality({i \in DOMAIN s : s[i] = "\n"}) + 1

(* C21 as stated: the canonical form of a handle built from native integer
   42 is the text 42, that of a handle built from native text ab is the four
   characters "ab" (the text enclosed in double quotes), and the canonical
   form of any value contains no newline. *)
C21_AsStated ==
    last.op = "operator<<" =>
        /\ last.arg = FortyTwo => last.ret = <<"4", "2">>
        /\ last.arg = TextAb => last.ret = <<"\"", "a", "b", "\"">>
        /\ Lines(last.ret) = 1

(* C21, amended: the canonical form (operator<<) of a handle built from
   native integer 42 is the text 42; that of a handle built from native text
   ab is the four characters 'ab', the text enclosed in single quotes; every
   text is written between two equal quote characters, single ones unless
   the text holds a single quote and no double quote; the canonical form of
   any value is one line, a newline of a text being written as the two
   characters backslash and n.  PyObj::str gives 42 for the integer and the
   text itself, without quotes, for a text. *)
C21_CanonicalForm ==
    /\ last.op = "operator<<" =>
        /\ last.arg = FortyTwo => last.ret = <<"4", "2">>
        /\ last.arg = TextAb => last.ret = <<"'", "a", "b", "'">>
        /\ last.arg.kind = "str" =>
              /\ Len(last.ret) >= Len(last.arg.text) + 2
              /\ last.ret[1] = last.ret[Len(last.ret)]
              /\ last.ret[1] = (IF Holds(last.arg.text, "'") /\ ~Holds(last.arg.text, "\"")
                                THEN "\"" ELSE "'")
              /\ Len(last.ret) = Len(last.arg.text) + 2
                    + Cardinality({i \in DOMAIN last.arg.text :
                                      last.arg.text[i] \in {"\\", "\n", last.ret[1]}})
        /\ Lines(last.ret) = 1
    /\ last.op = "str" =>
        /\ last.arg = FortyTwo => last.ret = <<"4", "2">>
        /\ last.arg.kind = "str" => last.ret = last.arg.text

\* A list holding the text of one newline has been written on one line.
C21_Witness ==
    /\ last.op = "operator<<"
    /\ last.arg = Node("list", <<Node("str", <<>>, 0, <<"\n">>)>>, 0, <<>>)
    /\ last.ret = <<"[", "'", "\\", "n", "'", "]">>

\* ------------------------------------------------------------ running code
\* A piece of code is a sequence of statements: an assignment of a value to
\* a top-level name, the deletion of a name, an expression statement, a
\* raise, or text that does not parse.
system_keys_Six == {"__builtins__", "__name__", "__doc__", "__package__", "__loader__", "__spec__"}
system_keys ==
    {"__builtins__", "__name__", "__doc__", "__package__", "__loader__", "__spec__",
     "__annotations__"}

Names == {"x", "y"} \cup system_keys_Six \cup {"__annotations__"}

Stmts ==
    {[kind |-> "assign", name |-> n, val |-> 1] : n \in Names}
    \cup {[kind |-> "assign", name |-> "x", val |-> 3],
          [kind |-> "del", name |-> "x", val |-> 0],
          [kind |-> "expr", name |-> "", val |-> 3],
          [kind |-> "raise", name |-> "", val |-> 0],
          [kind |-> "bad", name |-> "", val |-> 0]}

Codes == Seqs(Stmts, MaxStmts)

Unbound == 0 - 1
Builtins == 0 - 2     \* the builtins table, the value of PyEval_GetBuiltins()

\* Py_CompileString(code, name, start): NULL when the text does not parse in
\* the start mode; Py_eval_input takes exactly one expression.
Compiles(code, start) ==
    /\ \A i \in DOMAIN code : code[i].kind # "bad"
    /\ start = "Py_eval_input" => (Len(code) = 1 /\ code[1].kind = "expr")

\* PyEval_EvalCode of compiled statements from the i-th on, in `globals`: the
\* namespace at the end, or at the statement that raised.
RECURSIVE EvalCode(_, _, _)
EvalCode(code, i, globals) ==
    IF i > Len(code) THEN [raised |-> FALSE, globals |-> globals]
    ELSE LET s == code[i]
         IN CASE s.kind = "assign" ->
                    EvalCode(code, i + 1, [globals EXCEPT ![s.name] = s.val])
              [] s.kind = "del" ->
                    IF globals[s.name] = Unbound THEN [raised |-> TRUE, globals |-> globals]
                    ELSE EvalCode(code, i + 1, [globals EXCEPT ![s.name] = Unbound])
              [] s.kind = "expr" -> EvalCode(code, i + 1, globals)
              [] OTHER -> [raised |-> TRUE, globals |-> globals]

\* A handle as these functions return it: empty, or wrapping a dict with
\* `entries`, or wrapping the integer `val`.
NoHandle == [empty |-> TRUE, kind |-> "none", val |-> 0, entries |-> {}]
DictHandle(g) ==
    [empty |-> FALSE, kind |-> "dict", val |-> 0,
     entries |-> {<<n, g[n]>> : n \in {m \in Names : g[m] # Unbound}}]

\* The result of a function with the error indicator and the diagnostic
\* stream it leaves.
Outcome(h, pending, printed) == [handle |-> h, err |-> pending, printed |-> printed]

\* run_code(codeObj, source_name)
run_code(code) ==
    LET globals == [n \in Names |-> IF n = "__builtins__" THEN Builtins ELSE Unbound]
        result == EvalCode(code, 1, globals)
    IN IF result.raised
       THEN Outcome(NoHandle, FALSE, TRUE)        \* PyErr_Print(); return PyObj();
       ELSE Outcome(DictHandle([n \in Names |->
                        IF n \in system_keys THEN Unbound ELSE result.globals[n]]),
                    FALSE, FALSE)

\* eval(code)
eval(code) ==
    IF ~Compiles(code, "Py_file_input") THEN Outcome(NoHandle, FALSE, TRUE)
    ELSE run_code(code)

\* run_file_result(filename), the file being missing, empty, cut short while
\* it is read, or read in full.
FileStates == {"missing", "empty", "short", "ok"}

run_file_result(file, code) ==
    CASE file = "missing" -> Outcome(NoHandle, FALSE, TRUE)
      [] file = "empty" -> Outcome(NoHandle, FALSE, FALSE)
      [] file = "short" -> Outcome(NoHandle, FALSE, TRUE)
      [] OTHER ->
            IF ~Compiles(code, "Py_file_input") THEN Outcome(NoHandle, FALSE, TRUE)
            ELSE run_code(code)

InitRun ==
    /\ \E code \in Codes : \E file \in FileStates :
            /\ (file \in {"missing", "empty"} => code = <<>>)
            /\ (file \in {"short", "ok"} => code # <<>>)
            /\ last = [op |-> "input", arg |-> [code |-> code, file |-> file], ret |-> Null]
    /\ heap = [o \in Obj |-> NoObj]
    /\ err = FALSE
    /\ ub = FALSE
    /\ live = {}
    /\ hobj = [h \in Handles |-> Null]

\* `PyObj r = eval(code);` on the text of the file
Eval ==
    /\ last.op = "input" /\ last.arg.file = "ok"
    /\ LET r == eval(last.arg.code)
       IN /\ last' = [op |-> "eval", arg |-> last.arg, ret |-> r]
          /\ err' = r.err
    /\ UNCHANGED <<heap, ub, live, hobj>>

\* `PyObj r = run_file_result(filename);`
RunFileResult ==
    /\ last.op = "input"
    /\ LET r == run_file_result(last.arg.file, last.arg.code)
       IN /\ last' = [op |-> "run_file_result", arg |-> last.arg, ret |-> r]
          /\ err' = r.err
    /\ UNCHANGED <<heap, ub, live, hobj>>

NextRun == Eval \/ RunFileResult

SpecRun == InitRun /\ [][NextRun]_vars

\* ----------------------------------------------------------- C22, C23
\* The code is one expression.
IsExpression(code) == Len(code) = 1 /\ code[1].kind = "expr"

\* What executing the statements one after the other binds: the names
\* assigned and not deleted afterwards, with the value assigned last.
LastTouch(code, n) ==
    LET at == {i \in DOMAIN code : code[i].name = n /\ code[i].kind \in {"assign", "del"}}
    IN IF at = {} THEN 0 ELSE CHOOSE i \in at : \A j \in at : j <= i

Bound(code, n) == LastTouch(code, n) # 0 /\ code[LastTouch(code, n)].kind = "assign"

\* The execution fails: a raise, or the deletion of a name that is not bound.
Fails(code) ==
    \E i \in DOMAIN code :
        \/ code[i].kind = "raise"
        \/ /\ code[i].kind = "del"
           /\ ~Bound(SubSeq(code, 1, i - 1), code[i].name)

(* C22 as stated: eval(code) compiles code as a single expression and
   returns a handle to that expression's value (the integer 3 for "1+2");
   when compilation or evaluation fails it returns an empty handle with no
   runtime error left pending. *)
C22_EvalExpression ==
    last.op = "eval" =>
        /\ IsExpression(last.arg.code) =>
              /\ ~last.ret.handle.empty
              /\ last.ret.handle.kind = "int"
              /\ last.ret.handle.val = last.arg.code[1].val
        /\ ((\E i \in DOMAIN last.arg.code : last.arg.code[i].kind = "bad")
                \/ Fails(last.arg.code)) => last.ret.handle.empty
        /\ ~err

Reserved ==
    {"__builtins__", "__name__", "__doc__", "__package__", "__loader__", "__spec__",
     "__annotations__"}

(* C23: whenever run_file_result returns a non-empty handle, it is a mapping
   that contains every top-level binding created by executing the file and
   none of the seven reserved names __builtins__, __name__, __doc__,
   __package__, __loader__, __spec__, __annotations__, even when the executed
   code assigns to one of them; when the file cannot be opened, read or
   compiled, or its execution fails, it returns an empty handle. *)
C23_FileBindings ==
    last.op = "run_file_result" =>
        LET h == last.ret.handle
            code == last.arg.code
        IN /\ ~h.empty =>
                /\ h.kind = "dict"
                /\ \A n \in Names \ Reserved :
                      Bound(code, n) => <<n, code[LastTouch(code, n)].val>> \in h.entries
                /\ \A e \in h.entries : e[1] \notin Reserved
           /\ (\/ last.arg.file \in {"missing", "short"}
               \/ \E i \in DOMAIN code : code[i].kind = "bad"
               \/ Fails(code)) => h.empty

\* A file that assigns x and __annotations__ has been run: x is returned.
C23_Witness ==
    /\ last.op = "run_file_result"
    /\ ~last.ret.handle.empty
    /\ \E i \in DOMAIN last.arg.code :
          last.arg.code[i].kind = "assign" /\ last.arg.code[i].name = "__annotations__"
    /\ last.ret.handle.entries = {<<"x", 1>>}

\* --------------------------------------------------------------- lifecycle
\* The embedded runtime: whether it is initialized, how often Py_Initialize
\* and Py_FinalizeEx have been called, and how often each has been called
\* since the last call of the other.  The behaviours of this specification
\* keep it in last.ret and the number of lifecycle calls made in last.arg.
Runtime(active) ==
    [initialized |-> active, inits |-> 0, finals |-> 0, sinceFinal |-> 0, sinceInit |-> 0]

Py_IsInitialized_Never(R) == FALSE
Py_IsInitialized(R) == R.initialized

Py_Initialize(R) ==
    [R EXCEPT !.initialized = TRUE, !.inits = @ + 1, !.sinceFinal = @ + 1, !.sinceInit = 0]

\* Py_FinalizeEx may report a failure of flushing; the runtime is finalized
\* either way and exit_python ignores what it returns.
Py_FinalizeEx(R) ==
    [R EXCEPT !.initialized = FALSE, !.finals = @ + 1, !.sinceInit = @ + 1, !.sinceFinal = 0]

init_python(R) == IF ~Py_IsInitialized(R) THEN Py_Initialize(R) ELSE R

exit_python(R) == IF Py_IsInitialized(R) THEN Py_FinalizeEx(R) ELSE R

LifecycleOps == {"start", "init_python", "exit_python"}

InitLife ==
    /\ \E active \in BOOLEAN : last = [op |-> "start", arg |-> 0, ret |-> Runtime(active)]
    /\ heap = [o \in Obj |-> NoObj]
    /\ err = FALSE
    /\ ub = FALSE
    /\ live = {}
    /\ hobj = [h \in Handles |-> Null]

\* `init_python();`
InitPython ==
    /\ last.op \in LifecycleOps /\ last.arg < MaxCalls
    /\ last' = [op |-> "init_python", arg |-> last.arg + 1, ret |-> init_python(last.ret)]
    /\ UNCHANGED <<heap, err, ub, live, hobj>>

\* `exit_python();`
ExitPython ==
    /\ last.op \in LifecycleOps /\ last.arg < MaxCalls
    /\ last' = [op |-> "exit_python", arg |-> last.arg + 1, ret |-> exit_python(last.ret)]
    /\ UNCHANGED <<heap, err, ub, live, hobj>>

NextLife == InitPython \/ ExitPython

SpecLife == InitLife /\ [][NextLife]_vars

\* ----------------------------------------------------------------- C24
(* C24: over any sequence of init_python()/exit_python() calls,
   init_python() when the runtime is already active performs no
   initialization and leaves it active; exit_python() when the runtime is
   already inactive performs no finalization and does not fail; the runtime
   is initialized at most once between consecutive finalizations and
   finalized at most once between consecutive initializations. *)
C24_LifecycleIdempotent ==
    [][ /\ last'.op = "init_python" =>
            /\ last'.ret.initialized
            /\ last.ret.initialized => last'.ret = last.ret
            /\ ~last.ret.initialized => last'.ret.inits = last.ret.inits + 1
        /\ last'.op = "exit_python" =>
            /\ ~last'.ret.initialized
            /\ ~last.ret.initialized => last'.ret = last.ret
            /\ last.ret.initialized => last'.ret.finals = last.ret.finals + 1
        /\ last'.ret.sinceFinal <= 1
        /\ last'.ret.sinceInit <= 1
        /\ ~ub' ]_vars

\* exit_python() has been called twice in a row on a runtime that was not
\* active: nothing was initialized or finalized.
C24_Witness ==
    /\ last.op = "exit_python" /\ last.arg = 2
    /\ ~last.ret.initialized
    /\ last.ret.inits = 0 /\ last.ret.finals = 0

\* ------------------------------------------------- fstring, round by round
\* `i = j;` followed by the `++i` of the for statement: where the scan goes
\* on after a placeholder that closes at j.
Resume_At(j) == j
Resume(j) == j + 1

\* One round of `for (size_t i = 0; i < format.size(); ++i)` at position i
\* (counted from 1) with position_index pi: what it appends to output, the
\* template positions that text was copied from, whether it is the text of
\* an argument, and i and position_index at the next test of the loop.
Round(text, from, isArg, i, pi) ==
    [text |-> text, from |-> from, isArg |-> isArg, i |-> i, position_index |-> pi]

fstring_round(f, i, pi, P, N) ==
    IF f[i] = "{"
    THEN IF Doubled(f, i, "{")
         THEN Round(<<"{">>, {i}, FALSE, i + 2, pi)
         ELSE LET j == Find_char(f, "}", i + 1)
                  key == SubSeq(f, i + 1, j - 1)
              IN IF j = 0 THEN Round(<<"{">>, {i}, FALSE, i + 1, pi)
                 ELSE IF key = <<>>
                 THEN IF pi < Len(P)
                      THEN Round(P[pi + 1], {}, TRUE, Resume(j), pi + 1)
                      ELSE Round(<<"{", "}">>, i..j, FALSE, Resume(j), pi)
                 ELSE IF Find_named(N, key) # 0
                      THEN Round(N[Find_named(N, key)].value.t, {}, TRUE, Resume(j), pi)
                      ELSE Round(<<"{">> \o key \o <<"}">>, i..j, FALSE, Resume(j), pi)
    ELSE IF f[i] = "}"
    THEN IF Doubled(f, i, "}")
         THEN Round(<<"}">>, {i}, FALSE, i + 2, pi)
         ELSE Round(<<"}">>, {i}, FALSE, i + 1, pi)
    ELSE Round(<<f[i]>>, {i}, FALSE, i + 1, pi)

\* The scan in progress: i, position_index and output, the number of rounds
\* made, how often each template position has been copied to output, and
\* the total length of the argument texts substituted.
Scan(i, pi, output, rounds, copies, substituted) ==
    [i |-> i, position_index |-> pi, output |-> output, rounds |-> rounds,
     copies |-> copies, substituted |-> substituted]

ScanArgs ==
    {PlainArg(IntValue(23)), farg(<<"n">>, TextValue(<<"y", "y", "y", "y">>)),
     farg(<<"n">>, IntValue(45))}

InitScan ==
    /\ \E f \in Seqs(FormatChars, MaxScan) : \E args \in Seqs(ScanArgs, MaxFArgs) :
            last = [op |-> "scan", arg |-> [format |-> f, args |-> args],
                    ret |-> Scan(1, 0, <<>>, 0, [p \in DOMAIN f |-> 0], 0)]
    /\ heap = [o \in Obj |-> NoObj]
    /\ err = FALSE
    /\ ub = FALSE
    /\ live = {}
    /\ hobj = [h \in Handles |-> Null]

\* One round of the loop.
ScanRound ==
    /\ last.op = "scan"
    /\ last.ret.i <= Len(last.arg.format)
    /\ LET s == last.ret
           r == fstring_round(last.arg.format, s.i, s.position_index,
                              positional_args(last.arg.args), named_args(last.arg.args))
       IN last' = [last EXCEPT !.ret =
                      Scan(r.i, r.position_index, s.output \o r.text, s.rounds + 1,
                           [p \in DOMAIN s.copies |->
                               IF p \in r.from THEN s.copies[p] + 1 ELSE s.copies[p]],
                           s.substituted + (IF r.isArg THEN Len(r.text) ELSE 0))]
    /\ UNCHANGED <<heap, err, ub, live, hobj>>

\* `return output;` when the test of the loop fails.
ScanReturn ==
    /\ last.op = "scan"
    /\ last.ret.i > Len(last.arg.format)
    /\ last' = [last EXCEPT !.op = "fstring"]
    /\ UNCHANGED <<heap, err, ub, live, hobj>>

NextScan == ScanRound \/ ScanReturn

\* The loop runs in the calling thread and waits for nothing.
SpecScan == InitScan /\ [][NextScan]_vars /\ WF_vars(NextScan)

\* ----------------------------------------------------------------- C25
(* C25: fstring's scan terminates for every finite template and argument
   list and is a single forward pass: the scan index strictly increases on
   every loop iteration and never moves backwards (after a placeholder it
   resumes just past the matching `}`), no character of the template is
   emitted more than once, and the length of the output is at most the
   template length plus the total length of the substituted argument
   texts. *)
C25_SingleForwardPass ==
    /\ <>(last.op = "fstring")
    /\ [][ /\ last'.ret.i >= last.ret.i
           /\ last'.ret.rounds # last.ret.rounds =>
                /\ last'.ret.i > last.ret.i
                /\ last'.ret.i <= Len(last.arg.format) + 1
                /\ LET f == last.arg.format
                       i == last.ret.i
                   IN (f[i] = "{" /\ ~(i < Len(f) /\ f[i + 1] = "{")
                          /\ \E j \in i + 1..Len(f) : f[j] = "}") =>
                        /\ f[last'.ret.i - 1] = "}"
                        /\ \A q \in i + 1..last'.ret.i - 2 : f[q] # "}"
           /\ \A p \in DOMAIN last'.ret.copies : last'.ret.copies[p] <= 1
           /\ Len(last'.ret.output) <= Len(last.arg.format) + last'.ret.substituted
           /\ last'.op = "fstring" =>
                last'.ret.output = fstring(last.arg.format, last.arg.args).output
         ]_vars

\* A scan has returned after substituting a named argument of four
\* characters and copying a brace that nothing closes.
C25_Witness ==
    /\ last.op = "fstring"
    /\ last.arg.format = <<"{", "n", "}", "{">>
    /\ last.ret.substituted = 4
    /\ last.ret.rounds = 2
    /\ Len(last.ret.output) = 5

\* ------------------------------------------------------- a proxy that is kept
\* `auto p = d[k];` keeps the DictSetter beyond the statement.  The program
\* holds the Dict d (handle 1), a second Dict handle e (handle 2) and the
\* integer v (handle 3), used as key and as value.  The proxy's members
\* (`PyObject* dict`, which takes no count, and `PyObj key`, which does) are
\* kept in last.arg.
Proxy(made, d, k) == [made |-> made, dict |-> d, key |-> k]

NoProxy == Proxy(FALSE, Null, Null)

\* The dict d wraps at the start: built by `Dict d(raw); Py_DECREF(raw);`,
\* where d holds the only count, or by `Dict d;`, which leaves a count that no
\* handle owns; empty or binding v to v.
ProxySeed(c, es) ==
    [o \in Obj |->
        IF o = 1 THEN Value("dict", c, es, 0, <<>>)
        ELSE IF o = 2 THEN Value("int", 1 + Occ(FlattenPairs(es), 2), <<>>, 1, <<>>)
        ELSE NoObj]

InitProxy ==
    /\ \E c \in {1, 2} : \E es \in {<<>>, <<<<2, 2>>>>} : heap = ProxySeed(c, es)
    /\ hobj = [h \in Handles |-> IF h = 1 THEN 1 ELSE IF h = 3 THEN 2 ELSE Null]
    /\ err = FALSE
    /\ ub = FALSE
    /\ live = {1, 3}
    /\ last = [op |-> "start", arg |-> NoProxy, ret |-> Null]

\* `auto p = d[v];`
ProxyMake ==
    /\ ~ub /\ ~last.arg.made /\ 1 \in live /\ hobj[1] # Null
    /\ SetRt(DictSetter(Rt, hobj[1], hobj[3]))
    /\ last' = [op |-> "d[k]", arg |-> Proxy(TRUE, hobj[1], hobj[3]), ret |-> Null]
    /\ UNCHANGED <<live, hobj>>

\* `PyObj x = p;` in a block of its own: x is destroyed at its end.
ProxyRead ==
    /\ ~ub /\ last.arg.made
    /\ LET r == DictSetter_to_PyObj(Rt, last.arg.dict, last.arg.key)
       IN /\ SetRt(IF r.rt.ub THEN r.rt ELSE Dtor(r.rt, r.ret))
          /\ last' = [op |-> "proxy read", arg |-> last.arg,
                      ret |-> IF r.rt.ub THEN Null ELSE r.ret]
    /\ UNCHANGED <<live, hobj>>

\* `p = v;`
ProxyWrite ==
    /\ ~ub /\ last.arg.made
    /\ SetRt(DictSetter_assign(Rt, last.arg.dict, last.arg.key, hobj[3]).rt)
    /\ last' = [op |-> "proxy write", arg |-> last.arg, ret |-> Null]
    /\ UNCHANGED <<live, hobj>>

\* The proxy goes out of scope: ~PyObj() of its key.
ProxyDestroy ==
    /\ ~ub /\ last.arg.made
    /\ SetRt(Dtor(Rt, last.arg.key))
    /\ last' = [op |-> "~DictSetter", arg |-> NoProxy, ret |-> Null]
    /\ UNCHANGED <<live, hobj>>

\* `Dict a(b);`
HandleCopy(a, b) ==
    /\ ~ub /\ a \notin live /\ b \in live
    /\ SetRt(CopyCtor(Rt, hobj[b]))
    /\ live' = live \cup {a}
    /\ hobj' = [hobj EXCEPT ![a] = hobj[b]]
    /\ last' = [last EXCEPT !.op = "copy", !.ret = Null]

\* `a = b;`
HandleAssign(a, b) ==
    /\ ~ub /\ a \in live /\ b \in live /\ a # b
    /\ SetRt(Py_XINCREF(Py_XDECREF(Rt, hobj[a]), hobj[b]))
    /\ hobj' = [hobj EXCEPT ![a] = hobj[b]]
    /\ last' = [last EXCEPT !.op = "copy_assign", !.ret = Null]
    /\ UNCHANGED live

\* `a = Dict();`: the temporary wraps a new dict and a is move-assigned.
HandleReset(a) ==
    /\ ~ub /\ a \in live /\ HasRoom(1)
    /\ SetRt(Py_XDECREF(WrapRaw(PyNew(Rt, "dict", <<>>, 0, <<>>), Fresh(heap)), hobj[a]))
    /\ hobj' = [hobj EXCEPT ![a] = Fresh(heap)]
    /\ last' = [last EXCEPT !.op = "move_assign", !.ret = Null]
    /\ UNCHANGED live

\* The handle goes out of scope.
HandleDestroy(a) ==
    /\ ~ub /\ a \in live
    /\ SetRt(Dtor(Rt, hobj[a]))
    /\ live' = live \ {a}
    /\ hobj' = [hobj EXCEPT ![a] = Null]
    /\ last' = [last EXCEPT !.op = "destroy", !.ret = Null]

NextProxy ==
    /\ \/ ProxyMake
       \/ ProxyRead
       \/ ProxyWrite
       \/ ProxyDestroy
       \/ \E a, b \in {1, 2} : HandleCopy(a, b)
       \/ \E a, b \in {1, 2} : HandleAssign(a, b)
       \/ \E a \in {1, 2} : HandleReset(a)
       \/ \E a \in {1, 2} : HandleDestroy(a)
    /\ LeaksFollowed'

SpecProxy == InitProxy /\ [][NextProxy]_vars

\* ----------------------------------------------------------------- C26
(* C26 as stated: a proxy obtained from a Dict's writable subscript never
   reads from or writes to a foreign mapping whose reference count has
   reached zero: whatever was done to the originating Dict handle and its
   other handles between the creation of the proxy and its use as a value or
   as an assignment target, the mapping the proxy targets is alive at the
   moment of use. *)
C26_ProxyTargetAlive ==
    [][ last'.op \in {"proxy read", "proxy write"} =>
            /\ heap[last.arg.dict].kind = "dict"
            /\ heap[last.arg.dict].rc >= 1
            /\ ~ub' ]_vars

\* ------------------------------------------------- rendering and the counts
\* What the renderings do to the reference counts of the values they visit.
\* `Py_XDECREF(item);` after the child has been written.
ReleaseItem_Skip(R, item) == R
ReleaseItem(R, item) == Py_XDECREF(R, item)

RECURSIVE pretty_print_counts(_, _)
RECURSIVE pretty_print_each(_, _)

\* `Py_XINCREF(item); pretty_print(os, PyObj(item), indent + 4);
\* Py_XDECREF(item);`: the temporary handle takes a count of its own and
\* gives it up at the end of the statement.
pretty_print_child(R, item) ==
    ReleaseItem(Dtor(pretty_print_counts(WrapRaw(Py_XINCREF(R, item), item), item), item), item)

\* The children in the order they are visited.
pretty_print_each(R, items) ==
    IF items = <<>> \/ R.ub THEN R
    ELSE pretty_print_each(pretty_print_child(R, Head(items)), Tail(items))

\* PyObject_Repr / PyObject_Str and the release of the text it returned.
repr_released(R) == Py_XDECREF(PyNew(R, "str", <<>>, 0, <<>>), Fresh(R.heap))

\* detail::pretty_print(os, obj, indent) on the value o.  The iterator of a
\* set holds a count of the set until it is released; PyIter_Next returns
\* each member with a count, as the Py_XINCREF of the other loops does.
pretty_print_counts(R, o) ==
    IF o = Null \/ R.ub THEN R
    ELSE IF ~Allocated(R.heap, o) THEN [R EXCEPT !.ub = TRUE]
    ELSE CASE R.heap[o].kind \in {"int", "str"} -> R
           [] R.heap[o].kind \in {"list", "tuple"} -> pretty_print_each(R, R.heap[o].items)
           [] R.heap[o].kind = "dict" -> pretty_print_each(R, FlattenPairs(R.heap[o].items))
           [] R.heap[o].kind = "set" ->
                Py_XDECREF(pretty_print_each(Py_XINCREF(R, o), R.heap[o].items), o)
           [] OTHER -> repr_released(R)

\* operator<<(std::ostream&, const PyObj&) and PyObj::str().
operator_out_counts(R, o) == IF o = Null THEN R ELSE repr_released(R)

\* The program holds a container (handle 1, value 1) of an integer (value
\* 2), a text (value 3) and a container nested in it (value 4, also held by
\* handle 2); handle 3 is empty.  The runtime holds a count of the integer
\* and of the text.
Elements(k) ==
    IF k = "dict"
    THEN {<<>>} \cup {<<<<key, v>>>> : key \in {2, 3}, v \in {2, 3, 4}}
            \cup {<<<<2, a>>, <<3, b>>>> : a, b \in {2, 4}}
    ELSE IF k = "set" THEN {<<>>, <<2>>, <<3, 2>>, <<4>>, <<2, 4>>}
    ELSE Seqs({2, 3, 4}, MaxWidth)

Inner(k) ==
    IF k = "set" \/ k = "dict" THEN {"tuple"} ELSE {"list", "tuple", "set", "dict"}

InnerElements(k) ==
    IF k = "dict" THEN {<<>>, <<<<2, 3>>>>} ELSE {<<>>, <<2>>, <<3, 2>>}

RenderRefs(k, es) == IF k = "dict" THEN FlattenPairs(es) ELSE es

RenderSeed(k1, es1, k4, es4) ==
    LET refs == RenderRefs(k1, es1) \o RenderRefs(k4, es4)
    IN [o \in Obj |->
          IF o = 1 THEN Value(k1, 1, es1, 0, <<>>)
          ELSE IF o = 2 THEN Value("int", 1 + Occ(refs, 2), <<>>, 1, <<>>)
          ELSE IF o = 3 THEN Value("str", 1 + Occ(refs, 3), <<>>, 0, <<"a">>)
          ELSE IF o = 4 THEN Value(k4, 1 + Occ(refs, 4), es4, 0, <<>>)
          ELSE NoObj]

InitRender ==
    /\ \E k1 \in {"list", "tuple", "dict", "set"} : \E es1 \in Elements(k1) :
       \E k4 \in Inner(k1) : \E es4 \in InnerElements(k4) :
            heap = RenderSeed(k1, es1, k4, es4)
    /\ hobj = [h \in Handles |-> IF h = 1 THEN 1 ELSE IF h = 2 THEN 4 ELSE Null]
    /\ err = FALSE
    /\ ub = FALSE
    /\ live = {1, 2, 3}
    /\ last = [op |-> "start", arg |-> <<>>, ret |-> Null]

\* `PyObj::pretty_print(std::cout, h);`
StmtPrettyPrint(h) ==
    /\ ~ub
    /\ SetRt(pretty_print_counts(Rt, hobj[h]))
    /\ UNCHANGED <<live, hobj>>
    /\ Done("pretty_print", <<h>>, Null)

\* `pprint(h);`
StmtPprint(h) ==
    /\ ~ub
    /\ SetRt(pretty_print_counts(Rt, hobj[h]))
    /\ UNCHANGED <<live, hobj>>
    /\ Done("pprint", <<h>>, Null)

\* `std::cout << h;`
StmtStream(h) ==
    /\ ~ub /\ HasRoom(1)
    /\ SetRt(operator_out_counts(Rt, hobj[h]))
    /\ UNCHANGED <<live, hobj>>
    /\ Done("operator<<", <<h>>, Null)

\* `h.str();`
StmtStr(h) ==
    /\ ~ub /\ HasRoom(1)
    /\ SetRt(operator_out_counts(Rt, hobj[h]))
    /\ UNCHANGED <<live, hobj>>
    /\ Done("str", <<h>>, Null)

NextRender ==
    \/ \E h \in Handles : StmtPrettyPrint(h)
    \/ \E h \in Handles : StmtPprint(h)
    \/ \E h \in Handles : StmtStream(h)
    \/ \E h \in Handles : StmtStr(h)

SpecRender == InitRender /\ [][NextRender]_vars

\* ----------------------------------------------------------------- C27
(* C27: after detail::pretty_print, pprint, operator<< or PyObj::str
   returns for a value of any nesting, lists, tuples, mappings and sets
   included, the reference count of the rendered value and of every element,
   key and value reachable from it equals its count before the call, and no
   container's contents or length has changed. *)
C27_RenderingKeepsCounts ==
    [][ last'.op \in {"pretty_print", "pprint", "operator<<", "str"} =>
            /\ ~ub'
            /\ \A o \in Obj : Allocated(heap, o) =>
                  /\ heap'[o].rc = heap[o].rc
                  /\ heap'[o].items = heap[o].items
                  /\ heap'[o].kind = heap[o].kind
            /\ hobj' = hobj ]_vars

\* A set that holds a tuple of two has been pretty-printed.
C27_Witness ==
    /\ last.op = "pretty_print" /\ last.arg = <<1>>
    /\ heap[1].kind = "set" /\ heap[1].items = <<2, 4>>
    /\ heap[4].kind = "tuple" /\ heap[4].items = <<3, 2>>
    /\ heap[2].rc = 3

====
